---- MODULE Spec2Model ----
(***************************************************************************)
(* Twilio webhook route of the Scam Detective Hotline: signature           *)
(* verification, event normalisation, the webhook handler POST and the     *)
(* per-call advice scheduler runAdviceForCall; the tenant phone route PUT; *)
(* and the live panel of the page: its polling, its realtime channel and   *)
(* the compaction of the transcript it displays.                           *)
(*                                                                         *)
(* Strings that take part in the signature are sequences of one-character  *)
(* strings, so that concatenation and lexicographic sorting are computed   *)
(* as the code computes them.                                              *)
(***************************************************************************)
EXTENDS Integers, Sequences, FiniteSets, TLC

\* null for a string (no string of the model equals it), and null for the
\* three-valued result of readBoolean.
NULL == << "null" >>
BNULL == "null"

(***************************************************************************)
(* Characters and strings                                                  *)
(***************************************************************************)

\* The characters used by the model, in ascending UTF-16 code unit order.
Alphabet ==
  << " ", "-", "/", "0", "1", "2", "3", "4", "5", "6", "7", "8", "9",
     ":", "A", "B", "C", "D", "E", "F", "G", "H", "I", "J", "K", "L",
     "M", "N", "O", "P", "Q", "R", "S", "T", "U", "V", "W", "X", "Y",
     "Z", "a", "b", "c", "d", "e", "f", "g", "h", "i", "j", "k", "l",
     "m", "n", "o", "p", "q", "r", "s", "t", "u", "v", "w", "x", "y",
     "z" >>

Ord(ch) == CHOOSE i \in DOMAIN Alphabet : Alphabet[i] = ch

\* a < b in the order Array.prototype.sort() uses for strings.
RECURSIVE StrLess(_, _)
StrLess(a, b) ==
  IF b = << >> THEN FALSE
  ELSE IF a = << >> THEN TRUE
  ELSE IF Head(a) = Head(b) THEN StrLess(Tail(a), Tail(b))
  ELSE Ord(Head(a)) < Ord(Head(b))

RECURSIVE SortedKeys(_)
SortedKeys(keys) ==
  IF keys = {} THEN << >>
  ELSE LET first == CHOOSE k \in keys : \A o \in keys \ {k} : StrLess(k, o)
       IN  << first >> \o SortedKeys(keys \ {first})

RECURSIVE TrimLeft(_)
TrimLeft(s) ==
  IF s # << >> /\ Head(s) = " " THEN TrimLeft(Tail(s)) ELSE s

RECURSIVE TrimRight(_)
TrimRight(s) ==
  IF s # << >> /\ s[Len(s)] = " " THEN TrimRight(SubSeq(s, 1, Len(s) - 1)) ELSE s

Trim(s) == TrimRight(TrimLeft(s))

(***************************************************************************)
(* Signature verification (twilio-webhook)                                 *)
(***************************************************************************)

\* Length of a base64 HMAC-SHA1 digest.
DigestLen == 28

\* HMAC-SHA1 is modelled as collision-free: the digest is the pair of its
\* key and its input, and has the fixed digest length.
Hmac(authToken, payload) ==
  [len |-> DigestLen, mac |-> << authToken, payload >>]

RECURSIVE ReducePayload(_, _, _)
ReducePayload(acc, keys, params) ==
  IF keys = << >> THEN acc
  ELSE ReducePayload(acc \o Head(keys) \o params[Head(keys)], Tail(keys), params)

computeTwilioSignature(authToken, url, params) ==
  LET sortedKeys == SortedKeys(DOMAIN params)
      payload == ReducePayload(url, sortedKeys, params)
  IN  Hmac(authToken, payload)

\* crypto.timingSafeEqual throws when the two buffers differ in length.
\* Results are "true", "false" or "throw".
timingSafeEqual(a, b) ==
  IF a.len # b.len THEN "throw"
  ELSE IF a.mac = b.mac THEN "true" ELSE "false"

\* safeEqual comparing the lengths only.
safeEqualLengthOnly(a, b) ==
  IF a.len # b.len THEN "false" ELSE "true"

safeEqual(a, b) ==
  IF a.len # b.len THEN "false" ELSE timingSafeEqual(a, b)

\* A URL as new URL(requestUrl) holds it; port is << >> when it is absent
\* or the scheme's default. A request URL that does not parse has scheme NULL.
\* A host header is [host, port], with host NULL when the header is absent.
DefaultPort(scheme) ==
  IF scheme = << "h", "t", "t", "p", "s" >> THEN << "4", "4", "3" >>
  ELSE << "8", "0" >>

SpecialSchemes == { << "h", "t", "t", "p" >>, << "h", "t", "t", "p", "s" >> }

UrlToString(u) ==
  u.scheme \o << ":", "/", "/" >> \o u.host
    \o (IF u.port = << >> THEN << >> ELSE << ":" >> \o u.port)
    \o u.path

\* parsed.host = value: sets the host name, and the port when value has one.
SetHost(u, value) ==
  [u EXCEPT !.host = value.host,
            !.port = IF value.port = << >> THEN u.port
                     ELSE IF value.port = DefaultPort(u.scheme) THEN << >>
                     ELSE value.port]

\* parsed.protocol = value: ignored unless value is a special scheme; a port
\* that is the new scheme's default is dropped.
SetProtocol(u, value) ==
  IF value \notin SpecialSchemes THEN u
  ELSE [u EXCEPT !.scheme = value,
                 !.port = IF u.port = DefaultPort(value) THEN << >> ELSE u.port]

\* buildTwilioUrlCandidates without the forwarded variant.
buildTwilioUrlCandidatesRawOnly(requestUrl, headers) ==
  IF requestUrl.scheme = NULL THEN {} ELSE { UrlToString(requestUrl) }

buildTwilioUrlCandidates(requestUrl, headers) ==
  IF requestUrl.scheme = NULL THEN {}
  ELSE LET forwardedHost ==
             IF headers.xForwardedHost.host # NULL THEN headers.xForwardedHost
             ELSE headers.host
           forwardedProto == headers.xForwardedProto
           withHost ==
             IF forwardedHost.host # NULL THEN SetHost(requestUrl, forwardedHost)
             ELSE requestUrl
           withProto ==
             IF forwardedProto # NULL THEN SetProtocol(withHost, forwardedProto)
             ELSE withHost
       IN  { UrlToString(requestUrl), UrlToString(withProto) }

\* urlCandidates.some(candidate => safeEqual(compute(candidate), signature)):
\* "throw" if a comparison throws, else "true" or "false": whether some
\* candidate matches.
isValidTwilioSignature(authToken, signature, urlCandidates, bodyParams) ==
  LET results == { safeEqual(computeTwilioSignature(authToken, c, bodyParams), signature) :
                     c \in urlCandidates }
  IN  IF "throw" \in results THEN "throw"
      ELSE IF "true" \in results THEN "true" ELSE "false"

(***************************************************************************)
(* Event normalisation (twilio-webhook)                                    *)
(***************************************************************************)

\* The form field names parseTwilioWebhookEvent reads.
K(name) ==
  CASE name = "CallSid" -> << "C", "a", "l", "l", "S", "i", "d" >>
    [] name = "AccountSid" -> << "A", "c", "c", "o", "u", "n", "t", "S", "i", "d" >>
    [] name = "CallStatus" -> << "C", "a", "l", "l", "S", "t", "a", "t", "u", "s" >>
    [] name = "slug" -> << "s", "l", "u", "g" >>
    [] name = "Slug" -> << "S", "l", "u", "g" >>
    [] name = "TranscriptionData" -> << "T", "r", "a", "n", "s", "c", "r", "i", "p", "t", "i", "o", "n", "D", "a", "t", "a" >>
    [] name = "TranscriptionText" -> << "T", "r", "a", "n", "s", "c", "r", "i", "p", "t", "i", "o", "n", "T", "e", "x", "t" >>
    [] name = "Transcript" -> << "T", "r", "a", "n", "s", "c", "r", "i", "p", "t" >>
    [] name = "SpeechResult" -> << "S", "p", "e", "e", "c", "h", "R", "e", "s", "u", "l", "t" >>
    [] name = "UnstableSpeechResult" -> << "U", "n", "s", "t", "a", "b", "l", "e", "S", "p", "e", "e", "c", "h", "R", "e", "s", "u", "l", "t" >>
    [] name = "TranscriptionEvent" -> << "T", "r", "a", "n", "s", "c", "r", "i", "p", "t", "i", "o", "n", "E", "v", "e", "n", "t" >>
    [] name = "EventType" -> << "E", "v", "e", "n", "t", "T", "y", "p", "e" >>
    [] name = "SpeechEventType" -> << "S", "p", "e", "e", "c", "h", "E", "v", "e", "n", "t", "T", "y", "p", "e" >>
    [] name = "IsFinal" -> << "I", "s", "F", "i", "n", "a", "l" >>
    [] name = "Final" -> << "F", "i", "n", "a", "l" >>
    [] name = "TranscriptionSid" -> << "T", "r", "a", "n", "s", "c", "r", "i", "p", "t", "i", "o", "n", "S", "i", "d" >>
    [] name = "TranscriptionSessionSid" -> << "T", "r", "a", "n", "s", "c", "r", "i", "p", "t", "i", "o", "n", "S", "e", "s", "s", "i", "o", "n", "S", "i", "d" >>
    [] name = "SequenceId" -> << "S", "e", "q", "u", "e", "n", "c", "e", "I", "d" >>
    [] name = "ResultIndex" -> << "R", "e", "s", "u", "l", "t", "I", "n", "d", "e", "x" >>
    [] name = "SegmentIndex" -> << "S", "e", "g", "m", "e", "n", "t", "I", "n", "d", "e", "x" >>
    [] name = "TranscriptionSegmentSid" -> << "T", "r", "a", "n", "s", "c", "r", "i", "p", "t", "i", "o", "n", "S", "e", "g", "m", "e", "n", "t", "S", "i", "d" >>
    [] name = "SegmentSid" -> << "S", "e", "g", "m", "e", "n", "t", "S", "i", "d" >>
    [] name = "Track" -> << "T", "r", "a", "c", "k" >>
    [] name = "track" -> << "t", "r", "a", "c", "k" >>
    [] name = "Channel" -> << "C", "h", "a", "n", "n", "e", "l" >>
    [] name = "ChannelName" -> << "C", "h", "a", "n", "n", "e", "l", "N", "a", "m", "e" >>
    [] name = "ParticipantRole" -> << "P", "a", "r", "t", "i", "c", "i", "p", "a", "n", "t", "R", "o", "l", "e" >>
    [] name = "ParticipantLabel" -> << "P", "a", "r", "t", "i", "c", "i", "p", "a", "n", "t", "L", "a", "b", "e", "l" >>
    [] name = "Timestamp" -> << "T", "i", "m", "e", "s", "t", "a", "m", "p" >>
    [] name = "Time" -> << "T", "i", "m", "e" >>
    [] name = "SequenceStartTime" -> << "S", "e", "q", "u", "e", "n", "c", "e", "S", "t", "a", "r", "t", "T", "i", "m", "e" >>
    [] name = "TranscriptionTimestamp" -> << "T", "r", "a", "n", "s", "c", "r", "i", "p", "t", "i", "o", "n", "T", "i", "m", "e", "s", "t", "a", "m", "p" >>
    [] name = "DateCreated" -> << "D", "a", "t", "e", "C", "r", "e", "a", "t", "e", "d" >>

UpperCase == << "A", "B", "C", "D", "E", "F", "G", "H", "I", "J", "K", "L", "M",
                "N", "O", "P", "Q", "R", "S", "T", "U", "V", "W", "X", "Y", "Z" >>
LowerCase == << "a", "b", "c", "d", "e", "f", "g", "h", "i", "j", "k", "l", "m",
                "n", "o", "p", "q", "r", "s", "t", "u", "v", "w", "x", "y", "z" >>

LowerChar(ch) ==
  IF \E i \in DOMAIN UpperCase : UpperCase[i] = ch
  THEN LowerCase[CHOOSE i \in DOMAIN UpperCase : UpperCase[i] = ch]
  ELSE ch

toLowerCase(s) == [i \in DOMAIN s |-> LowerChar(s[i])]

includes(s, sub) ==
  \E i \in 0..(Len(s) - Len(sub)) : SubSeq(s, i + 1, i + Len(sub)) = sub

\* readString: the trimmed value of the first key that has a non-blank value.
RECURSIVE readString(_, _)
readString(params, keys) ==
  IF keys = << >> THEN NULL
  ELSE IF Head(keys) \in DOMAIN params /\ Trim(params[Head(keys)]) # << >>
       THEN Trim(params[Head(keys)])
       ELSE readString(params, Tail(keys))

\* readBoolean: "true", "false" or BNULL.
readBoolean(value) ==
  IF value = NULL THEN BNULL
  ELSE LET normalized == toLowerCase(value)
       IN  IF normalized \in { << "1" >>, << "t", "r", "u", "e" >>,
                               << "y", "e", "s" >>, << "y" >> } THEN "true"
           ELSE IF normalized \in { << "0" >>, << "f", "a", "l", "s", "e" >>,
                                    << "n", "o" >>, << "n" >> } THEN "false"
           ELSE BNULL

Digits == << "0", "1", "2", "3", "4", "5", "6", "7", "8", "9" >>

IsDigits(s) == \A i \in DOMAIN s : \E d \in DOMAIN Digits : Digits[d] = s[i]

\* `${n}` for a non-negative integer n.
RECURSIVE NumberToString(_)
NumberToString(n) ==
  IF n < 10 THEN << Digits[n + 1] >>
  ELSE NumberToString(n \div 10) \o << Digits[(n % 10) + 1] >>

\* parseTimestamp, with Date.now() = clock.  A number is kept as the decimal
\* string `${timestamp}` renders.  The timestamp fields of this model are
\* absent or hold epoch milliseconds (13 digits, above 1_000_000_000_000),
\* which Number() reads exactly; any other value is taken as one neither
\* Number() nor Date.parse() reads, which yields Date.now().
parseTimestamp(value, clock) ==
  IF value = NULL THEN NumberToString(clock)
  ELSE IF /\ Len(value) = 13
          /\ IsDigits(value)
          /\ Head(value) # "0"
          /\ value # << "1", "0", "0", "0", "0", "0", "0", "0", "0", "0", "0", "0", "0" >>
       THEN value
  ELSE NumberToString(clock)

\* TranscriptSpeaker
Speaker ==
  [unknown |-> << "u", "n", "k", "n", "o", "w", "n" >>,
   caller |-> << "c", "a", "l", "l", "e", "r" >>,
   other |-> << "o", "t", "h", "e", "r" >>]

parseSpeaker(track) ==
  IF track = NULL THEN Speaker.unknown
  ELSE LET normalized == toLowerCase(track)
       IN  IF \/ includes(normalized, << "c", "a", "l", "l", "e", "r" >>)
              \/ includes(normalized, << "c", "u", "s", "t", "o", "m", "e", "r" >>)
              \/ includes(normalized, << "i", "n", "b", "o", "u", "n", "d" >>)
           THEN Speaker.caller
           ELSE IF \/ includes(normalized, << "o", "u", "t", "b", "o", "u", "n", "d" >>)
                   \/ includes(normalized, << "c", "a", "l", "l", "e", "e" >>)
                   \/ includes(normalized, << "a", "g", "e", "n", "t" >>)
                   \/ includes(normalized, << "r", "e", "c", "i", "p", "i", "e", "n", "t" >>)
                   \/ includes(normalized, << "o", "t", "h", "e", "r" >>)
           THEN Speaker.other
           ELSE Speaker.unknown

\* The keys parseTranscriptionData reads.
J(name) ==
  CASE name = "transcript" -> << "t", "r", "a", "n", "s", "c", "r", "i", "p", "t" >>
    [] name = "text" -> << "t", "e", "x", "t" >>
    [] name = "isFinal" -> << "i", "s", "F", "i", "n", "a", "l" >>
    [] name = "final" -> << "f", "i", "n", "a", "l" >>
    [] name = "track" -> << "t", "r", "a", "c", "k" >>
    [] name = "channel" -> << "c", "h", "a", "n", "n", "e", "l" >>
    [] name = "speaker" -> << "s", "p", "e", "a", "k", "e", "r" >>
    [] name = "role" -> << "r", "o", "l", "e" >>
    [] name = "timestamp" -> << "t", "i", "m", "e", "s", "t", "a", "m", "p" >>
    [] name = "time" -> << "t", "i", "m", "e" >>
    [] name = "createdAt" -> << "c", "r", "e", "a", "t", "e", "d", "A", "t" >>
    [] name = "id" -> << "i", "d" >>
    [] name = "segmentId" -> << "s", "e", "g", "m", "e", "n", "t", "I", "d" >>
    [] name = "sequence" -> << "s", "e", "q", "u", "e", "n", "c", "e" >>
    [] name = "segments" -> << "s", "e", "g", "m", "e", "n", "t", "s" >>

\* A value of JSON.parse: kind is "object", "array", "string", "number",
\* "boolean" or "null"; chars is the text of a string, number or boolean;
\* items holds the elements of an array and the members of an object, a
\* member being of kind "member" with its key as chars and its value as its
\* one item.  "undefined" is the value of a key an object does not have.
JsonValue(kind, chars, items) == [kind |-> kind, chars |-> chars, items |-> items]

\* The result of reading a value at a position: none.
JsonFail == [ok |-> FALSE, value |-> JsonValue("undefined", << >>, << >>), rest |-> 0]

\* The value read and the position after it.
JsonOk(value, rest) == [ok |-> TRUE, value |-> value, rest |-> rest]

\* text holds literal at position i.
JsonAt(text, i, literal) ==
  /\ i + Len(literal) - 1 <= Len(text)
  /\ SubSeq(text, i, i + Len(literal) - 1) = literal

\* The position of the quote that ends the string starting at i, 0 when there
\* is none or the string holds an escape.
RECURSIVE JsonQuote(_, _)
JsonQuote(text, i) ==
  IF i > Len(text) \/ text[i] = "\\" THEN 0
  ELSE IF text[i] = "\"" THEN i
  ELSE JsonQuote(text, i + 1)

\* The position after the digits starting at i.
RECURSIVE JsonDigitsEnd(_, _)
JsonDigitsEnd(text, i) ==
  IF i <= Len(text) /\ IsDigits(<< text[i] >>) THEN JsonDigitsEnd(text, i + 1) ELSE i

\* The value that starts at position i; the members of the object and the
\* elements of the array whose next member or element starts at i.
RECURSIVE JsonParseValue(_, _), JsonMembers(_, _, _), JsonItems(_, _, _)
JsonParseValue(text, i) ==
  IF JsonAt(text, i, << "{", "}" >>) THEN JsonOk(JsonValue("object", << >>, << >>), i + 2)
  ELSE IF JsonAt(text, i, << "{" >>) THEN JsonMembers(text, i + 1, << >>)
  ELSE IF JsonAt(text, i, << "[", "]" >>) THEN JsonOk(JsonValue("array", << >>, << >>), i + 2)
  ELSE IF JsonAt(text, i, << "[" >>) THEN JsonItems(text, i + 1, << >>)
  ELSE IF JsonAt(text, i, << "\"" >>)
       THEN LET close == JsonQuote(text, i + 1)
            IN  IF close = 0 THEN JsonFail
                ELSE JsonOk(JsonValue("string", SubSeq(text, i + 1, close - 1), << >>), close + 1)
  ELSE IF JsonAt(text, i, << "t", "r", "u", "e" >>)
       THEN JsonOk(JsonValue("boolean", << "t", "r", "u", "e" >>, << >>), i + 4)
  ELSE IF JsonAt(text, i, << "f", "a", "l", "s", "e" >>)
       THEN JsonOk(JsonValue("boolean", << "f", "a", "l", "s", "e" >>, << >>), i + 5)
  ELSE IF JsonAt(text, i, << "n", "u", "l", "l" >>) THEN JsonOk(JsonValue("null", << >>, << >>), i + 4)
  ELSE IF JsonAt(text, i, << "0" >>) THEN JsonOk(JsonValue("number", << "0" >>, << >>), i + 1)
  ELSE IF JsonDigitsEnd(text, i) > i
       THEN JsonOk(JsonValue("number", SubSeq(text, i, JsonDigitsEnd(text, i) - 1), << >>),
                   JsonDigitsEnd(text, i))
  ELSE JsonFail

JsonMembers(text, i, members) ==
  LET key == JsonParseValue(text, i)
  IN  IF ~key.ok \/ key.value.kind # "string" \/ ~JsonAt(text, key.rest, << ":" >>) THEN JsonFail
      ELSE LET val == JsonParseValue(text, key.rest + 1)
               all == Append(members, JsonValue("member", key.value.chars, << val.value >>))
           IN  IF ~val.ok THEN JsonFail
               ELSE IF JsonAt(text, val.rest, << "," >>) THEN JsonMembers(text, val.rest + 1, all)
               ELSE IF JsonAt(text, val.rest, << "}" >>)
                    THEN JsonOk(JsonValue("object", << >>, all), val.rest + 1)
               ELSE JsonFail

JsonItems(text, i, items) ==
  LET val == JsonParseValue(text, i)
      all == Append(items, val.value)
  IN  IF ~val.ok THEN JsonFail
      ELSE IF JsonAt(text, val.rest, << "," >>) THEN JsonItems(text, val.rest + 1, all)
      ELSE IF JsonAt(text, val.rest, << "]" >>) THEN JsonOk(JsonValue("array", << >>, all), val.rest + 1)
      ELSE JsonFail

\* JSON.parse(text) for the JSON grammar without white space, escapes, signs,
\* fractions and exponents; a text outside the grammar throws a SyntaxError,
\* which is returned as a value of that kind.
JSON_parse(text) ==
  LET parsed == JsonParseValue(text, 1)
  IN  IF parsed.ok /\ parsed.rest = Len(text) + 1 THEN parsed.value
      ELSE JsonValue("SyntaxError", << >>, << >>)

\* record[key]: the value of the last member with that key, undefined when
\* record is not an object or has no such member.
JsonGet(record, key) ==
  LET hits == { m \in DOMAIN record.items : record.items[m].chars = key }
  IN  IF record.kind # "object" \/ hits = {} THEN JsonValue("undefined", << >>, << >>)
      ELSE record.items[CHOOSE m \in hits : \A o \in hits : o <= m].items[1]

\* asRecord: the value when it is an object that is not an array, else null.
asRecord(value) ==
  IF value.kind = "object" THEN value ELSE JsonValue("null", << >>, << >>)

\* readStringFromRecord: the trimmed value of the first key whose value is a
\* non-blank string.
RECURSIVE readStringFromRecord(_, _)
readStringFromRecord(record, keys) ==
  IF record.kind # "object" \/ keys = << >> THEN NULL
  ELSE IF /\ JsonGet(record, Head(keys)).kind = "string"
          /\ Trim(JsonGet(record, Head(keys)).chars) # << >>
       THEN Trim(JsonGet(record, Head(keys)).chars)
       ELSE readStringFromRecord(record, Tail(keys))

\* parseTranscriptionData taking a text that does not parse as the transcript.
parseTranscriptionDataRawText(rawData) ==
  [text |-> IF rawData # NULL /\ JSON_parse(rawData).kind = "SyntaxError" THEN rawData ELSE NULL,
   isFinal |-> BNULL, speakerHint |-> NULL, timestampHint |-> NULL, sourceHint |-> NULL]

\* parseTranscriptionData, with every value reading the record first and the
\* first segment when the record has none.
parseTranscriptionData(rawData) ==
  LET absent == [text |-> NULL, isFinal |-> BNULL, speakerHint |-> NULL,
                 timestampHint |-> NULL, sourceHint |-> NULL]
      Of(parsed) ==
        LET record == asRecord(parsed)
            segments == JsonGet(record, J("segments"))
            segment == IF segments.kind # "array" THEN JsonValue("null", << >>, << >>)
                       ELSE IF segments.items = << >> THEN JsonValue("null", << >>, << >>)
                       ELSE asRecord(segments.items[1])
            Read(keys) ==
              LET top == readStringFromRecord(record, keys)
              IN  IF top # NULL THEN top ELSE readStringFromRecord(segment, keys)
        IN  [text |-> Read(<< J("transcript"), J("text") >>),
             isFinal |-> readBoolean(Read(<< J("isFinal"), J("final") >>)),
             speakerHint |-> Read(<< J("track"), J("channel"), J("speaker"), J("role") >>),
             timestampHint |-> Read(<< J("timestamp"), J("time"), J("createdAt") >>),
             sourceHint |-> Read(<< J("id"), J("segmentId"), J("sequence") >>)]
  IN  IF rawData = NULL THEN absent
      ELSE IF JSON_parse(rawData).kind = "SyntaxError" THEN absent
      ELSE Of(JSON_parse(rawData))

\* /(final|complete|stopped)/i.test(eventName)
FinalEventName(eventName) ==
  LET lowered == toLowerCase(eventName)
  IN  \/ includes(lowered, << "f", "i", "n", "a", "l" >>)
      \/ includes(lowered, << "c", "o", "m", "p", "l", "e", "t", "e" >>)
      \/ includes(lowered, << "s", "t", "o", "p", "p", "e", "d" >>)

\* [a, b].filter(Boolean).join(':')
JoinIds(a, b) ==
  IF a # NULL /\ b # NULL THEN a \o << ":" >> \o b
  ELSE IF a # NULL THEN a
  ELSE IF b # NULL THEN b
  ELSE << >>

\* SHA-1 is modelled as collision-free: the id is the hashed string itself.
buildSourceEventId(callSid, transcriptionSid, sequenceId, segmentSid, sourceHint, timestamp, speaker, text) ==
  LET primaryId ==
        IF segmentSid # NULL THEN segmentSid
        ELSE IF sourceHint # NULL THEN sourceHint
        ELSE IF JoinIds(transcriptionSid, sequenceId) # << >>
             THEN JoinIds(transcriptionSid, sequenceId)
        ELSE timestamp \o << ":" >> \o speaker
  IN  callSid \o << "|" >> \o primaryId \o << "|" >> \o toLowerCase(Trim(text))

\* The transcript of an event that has none: its text is NULL.
NoTranscript ==
  [text |-> NULL, speaker |-> NULL, isFinal |-> FALSE, timestamp |-> NULL,
   sourceEventId |-> NULL]

\* parseTwilioWebhookEvent, with Date.now() = clock.
parseTwilioWebhookEvent(bodyParams, slugFromQuery, clock) ==
  LET callSid == readString(bodyParams, << K("CallSid") >>)
      accountSid == readString(bodyParams, << K("AccountSid") >>)
      status == readString(bodyParams, << K("CallStatus") >>)
      slug == IF slugFromQuery # NULL THEN slugFromQuery
              ELSE readString(bodyParams, << K("slug"), K("Slug") >>)
      transcriptionData ==
        parseTranscriptionData(readString(bodyParams, << K("TranscriptionData") >>))
      fieldText == readString(bodyParams, << K("TranscriptionText"), K("Transcript"),
                                             K("SpeechResult"), K("UnstableSpeechResult") >>)
      transcriptText == IF fieldText # NULL THEN fieldText ELSE transcriptionData.text
      eventName == readString(bodyParams, << K("TranscriptionEvent"), K("EventType"),
                                             K("SpeechEventType") >>)
      explicitFinal == readBoolean(readString(bodyParams, << K("IsFinal"), K("Final") >>))
      isFinal ==
        IF explicitFinal # BNULL THEN explicitFinal = "true"
        ELSE IF transcriptionData.isFinal # BNULL THEN transcriptionData.isFinal = "true"
        ELSE eventName # NULL /\ FinalEventName(eventName)
      fieldSpeaker == readString(bodyParams, << K("Track"), K("track"), K("Channel"), K("ChannelName"),
                                                K("ParticipantRole"), K("ParticipantLabel") >>)
      speaker == parseSpeaker(IF fieldSpeaker # NULL THEN fieldSpeaker
                              ELSE transcriptionData.speakerHint)
      fieldTimestamp == readString(bodyParams, << K("Timestamp"), K("Time"), K("SequenceStartTime"),
                                                  K("TranscriptionTimestamp"), K("DateCreated") >>)
      timestamp == parseTimestamp(IF fieldTimestamp # NULL THEN fieldTimestamp
                                  ELSE transcriptionData.timestampHint, clock)
      sourceEventId ==
        IF callSid = NULL \/ transcriptText = NULL THEN NULL
        ELSE buildSourceEventId(
          callSid,
          readString(bodyParams, << K("TranscriptionSid"), K("TranscriptionSessionSid") >>),
          readString(bodyParams, << K("SequenceId"), K("ResultIndex"), K("SegmentIndex") >>),
          readString(bodyParams, << K("TranscriptionSegmentSid"), K("SegmentSid") >>),
          transcriptionData.sourceHint,
          timestamp,
          speaker,
          transcriptText)
  IN  [callSid |-> callSid, accountSid |-> accountSid, slug |-> slug, status |-> status,
       transcript |->
         IF callSid = NULL \/ transcriptText = NULL THEN NoTranscript
         ELSE [text |-> transcriptText, speaker |-> speaker, isFinal |-> isFinal,
               timestamp |-> timestamp, sourceEventId |-> sourceEventId]]

(***************************************************************************)
(* The transcript merge engine                                             *)
(***************************************************************************)

FINAL_REPLACE_MIN_WORDS == 5

\* The characters \s matches among those of the model.
Whitespace == { " ", "\t" }

\* value.replace(/\s+/g, ' ')
RECURSIVE ReplaceWhitespace(_)
ReplaceWhitespace(s) ==
  IF s = << >> THEN << >>
  ELSE IF Head(s) \in Whitespace
    THEN IF Len(s) > 1 /\ s[2] \in Whitespace THEN ReplaceWhitespace(Tail(s))
         ELSE << " " >> \o ReplaceWhitespace(Tail(s))
  ELSE << Head(s) >> \o ReplaceWhitespace(Tail(s))

normalizeTranscriptText(value) == Trim(ReplaceWhitespace(value))

startsWith(s, prefix) ==
  Len(prefix) <= Len(s) /\ SubSeq(s, 1, Len(prefix)) = prefix

\* value.split(' ')
RECURSIVE split(_)
split(s) ==
  IF \A i \in DOMAIN s : s[i] # " " THEN << s >>
  ELSE LET i == CHOOSE k \in DOMAIN s : s[k] = " " /\ \A j \in 1..(k - 1) : s[j] # " "
       IN  << SubSeq(s, 1, i - 1) >> \o split(SubSeq(s, i + 1, Len(s)))

\* words.join(' ')
RECURSIVE join(_)
join(words) ==
  IF words = << >> THEN << >>
  ELSE IF Len(words) = 1 THEN words[1]
  ELSE words[1] \o << " " >> \o join(Tail(words))

\* [a-z0-9']
TokenChars ==
  { LowerCase[i] : i \in DOMAIN LowerCase } \cup { Digits[i] : i \in DOMAIN Digits } \cup { "'" }

RECURSIVE StripLeft(_)
StripLeft(s) ==
  IF s # << >> /\ Head(s) \notin TokenChars THEN StripLeft(Tail(s)) ELSE s

RECURSIVE StripRight(_)
StripRight(s) ==
  IF s # << >> /\ s[Len(s)] \notin TokenChars THEN StripRight(SubSeq(s, 1, Len(s) - 1))
  ELSE s

normalizeToken(value) ==
  LET lowered == toLowerCase(value)
      stripped == StripRight(StripLeft(lowered))
  IN  IF stripped # << >> THEN stripped ELSE lowered

Min(a, b) == IF a < b THEN a ELSE b

\* The body of the loop of findWordOverlap for one value of overlap.
OverlapMatches(previousWords, nextWords, overlap) ==
  \A index \in 0..(overlap - 1) :
    LET previousToken == normalizeToken(previousWords[Len(previousWords) - overlap + index + 1])
        nextToken == normalizeToken(nextWords[index + 1])
    IN  previousToken # << >> /\ nextToken # << >> /\ previousToken = nextToken

RECURSIVE FindWordOverlapFrom(_, _, _)
FindWordOverlapFrom(previousWords, nextWords, overlap) ==
  IF overlap <= 0 THEN 0
  ELSE IF OverlapMatches(previousWords, nextWords, overlap) THEN overlap
  ELSE FindWordOverlapFrom(previousWords, nextWords, overlap - 1)

findWordOverlap(previousWords, nextWords) ==
  FindWordOverlapFrom(previousWords, nextWords, Min(Len(previousWords), Len(nextWords)))

RECURSIVE CollapseFrom(_, _)
CollapseFrom(words, previousToken) ==
  IF words = << >> THEN << >>
  ELSE LET token == normalizeToken(Head(words))
       IN  IF token # << >> /\ token = previousToken
           THEN CollapseFrom(Tail(words), previousToken)
           ELSE << Head(words) >> \o CollapseFrom(Tail(words), token)

collapseDuplicateWords(words) == CollapseFrom(words, << >>)

tokenize(value) ==
  LET words == split(value)
  IN  SelectSeq([i \in DOMAIN words |-> normalizeToken(words[i])], LAMBDA w : w # << >>)

RECURSIVE countPrefixTokenMatches(_, _)
countPrefixTokenMatches(previousTokens, nextTokens) ==
  IF previousTokens = << >> \/ nextTokens = << >> THEN 0
  ELSE IF Head(previousTokens) # Head(nextTokens) THEN 0
  ELSE 1 + countPrefixTokenMatches(Tail(previousTokens), Tail(nextTokens))

Max(a, b) == IF a > b THEN a ELSE b

looksLikeRestart(previousText, nextText) ==
  LET previousTokens == tokenize(previousText)
      nextTokens == tokenize(nextText)
      prefixMatches == countPrefixTokenMatches(previousTokens, nextTokens)
  IN  IF Len(previousTokens) = 0 \/ Len(nextTokens) = 0 THEN FALSE
      ELSE IF prefixMatches >= 2 THEN TRUE
      ELSE IF prefixMatches >= 1 /\ Len(nextTokens) >= 4 THEN TRUE
      ELSE /\ previousTokens[1] = nextTokens[1]
           /\ Len(nextTokens) >= Max(4, (Len(previousTokens) * 7) \div 10)

shouldReplaceWithFinal(previousWords, nextWords) ==
  IF Len(nextWords) < FINAL_REPLACE_MIN_WORDS THEN FALSE
  ELSE Len(nextWords) >= Len(previousWords)

\* mergeIncrementalTranscriptText from the split into words on, with the
\* restart heuristic tried before the word overlap.
MergeWordsRestartFirst(previous, next, isFinal) ==
  LET previousWords == split(previous)
      nextWords == split(next)
      overlap == findWordOverlap(previousWords, nextWords)
  IN  IF looksLikeRestart(previous, next) THEN next
      ELSE IF overlap > 0
        THEN join(collapseDuplicateWords(
                    previousWords \o SubSeq(nextWords, overlap + 1, Len(nextWords))))
      ELSE IF isFinal /\ shouldReplaceWithFinal(previousWords, nextWords) THEN next
      ELSE join(collapseDuplicateWords(previousWords \o nextWords))

\* mergeIncrementalTranscriptText from the split into words on: word
\* overlap, restart, final replacement, concatenation.
MergeWords(previous, next, isFinal) ==
  LET previousWords == split(previous)
      nextWords == split(next)
      overlap == findWordOverlap(previousWords, nextWords)
  IN  IF overlap > 0
        THEN join(collapseDuplicateWords(
                    previousWords \o SubSeq(nextWords, overlap + 1, Len(nextWords))))
      ELSE IF looksLikeRestart(previous, next) THEN next
      ELSE IF isFinal /\ shouldReplaceWithFinal(previousWords, nextWords) THEN next
      ELSE join(collapseDuplicateWords(previousWords \o nextWords))

\* The checks of mergeIncrementalTranscriptText on the texts as wholes, with
\* `if (!next) return next`.
MergeTextsEmptyNextReturnsNext(previous, next, isFinal) ==
  LET previousLower == toLowerCase(previous)
      nextLower == toLowerCase(next)
  IN  IF previous = << >> THEN next
      ELSE IF next = << >> THEN next
      ELSE IF previousLower = nextLower THEN previous
      ELSE IF startsWith(nextLower, previousLower) THEN next
      ELSE IF includes(nextLower, previousLower) THEN next
      ELSE IF startsWith(previousLower, nextLower) THEN previous
      ELSE IF includes(previousLower, nextLower) THEN previous
      ELSE MergeWords(previous, next, isFinal)

\* The checks of mergeIncrementalTranscriptText on the texts as wholes, with
\* the case-insensitive equality returning next.
MergeTextsEqualReturnsNext(previous, next, isFinal) ==
  LET previousLower == toLowerCase(previous)
      nextLower == toLowerCase(next)
  IN  IF previous = << >> THEN next
      ELSE IF next = << >> THEN previous
      ELSE IF previousLower = nextLower THEN next
      ELSE IF startsWith(nextLower, previousLower) THEN next
      ELSE IF includes(nextLower, previousLower) THEN next
      ELSE IF startsWith(previousLower, nextLower) THEN previous
      ELSE IF includes(previousLower, nextLower) THEN previous
      ELSE MergeWords(previous, next, isFinal)

\* The checks of mergeIncrementalTranscriptText on the normalized texts as
\* wholes: empty side, equality, containment.
MergeTexts(previous, next, isFinal) ==
  LET previousLower == toLowerCase(previous)
      nextLower == toLowerCase(next)
  IN  IF previous = << >> THEN next
      ELSE IF next = << >> THEN previous
      ELSE IF previousLower = nextLower THEN previous
      ELSE IF startsWith(nextLower, previousLower) THEN next
      ELSE IF includes(nextLower, previousLower) THEN next
      ELSE IF startsWith(previousLower, nextLower) THEN previous
      ELSE IF includes(previousLower, nextLower) THEN previous
      ELSE MergeWords(previous, next, isFinal)

\* mergeIncrementalTranscriptText of the merge engine.
mergeIncrementalTranscriptText(previousText, nextText, isFinal) ==
  MergeTexts(normalizeTranscriptText(previousText), normalizeTranscriptText(nextText),
             isFinal)

\* mergeIncrementalTranscriptText of src/lib/transcript-merge.ts, the module
\* the transcript panel imports.
mergeIncrementalTranscriptTextLib(previousText, nextText, isFinal) ==
  LET previous == normalizeTranscriptText(previousText)
      next == normalizeTranscriptText(nextText)
      previousLower == toLowerCase(previous)
      nextLower == toLowerCase(next)
      previousWords == split(previous)
      nextWords == split(next)
      overlap == findWordOverlap(previousWords, nextWords)
  IN  IF previous = << >> THEN next
      ELSE IF next = << >> THEN previous
      ELSE IF previousLower = nextLower THEN previous
      ELSE IF startsWith(nextLower, previousLower) THEN next
      ELSE IF startsWith(previousLower, nextLower) THEN previous
      ELSE IF overlap > 0
        THEN join(collapseDuplicateWords(
                    previousWords \o SubSeq(nextWords, overlap + 1, Len(nextWords))))
      ELSE IF isFinal /\ shouldReplaceWithFinal(previousWords, nextWords) THEN next
      ELSE join(collapseDuplicateWords(previousWords \o nextWords))

(***************************************************************************)
(* The transcript panel (noir-frame)                                       *)
(***************************************************************************)

UTTERANCE_GAP_MS == 1400
MAX_SENTENCES_PER_BUBBLE == 3
MAX_BUBBLE_CHARS == 280
MAX_TRANSCRIPT_LINES == 220

\* Number(value) for a string of decimal digits.
RECURSIVE Number(_)
Number(value) ==
  IF value = << >> THEN 0
  ELSE Number(SubSeq(value, 1, Len(value) - 1)) * 10
         + (CHOOSE d \in 0..9 : Digits[d + 1] = value[Len(value)])

\* hasLogicalBubbleBoundary; sentenceCount is countSentenceBoundaries, the
\* matches of /[.!?]+(?=(?:["')\]]|\s|$))/g, and ends is
\* endsWithSentenceBoundary, /[.!?]["')\]]*$/.
hasLogicalBubbleBoundary(line) ==
  LET text == normalizeTranscriptText(line.text)
      marks == { ".", "!", "?" }
      closers == { "\"", "'", ")", "]" }
      sentenceCount ==
        Cardinality({ i \in DOMAIN text :
                        /\ text[i] \in marks
                        /\ i = Len(text) \/ text[i + 1] \in closers \cup Whitespace })
      ends == \E i \in DOMAIN text :
                /\ text[i] \in marks
                /\ \A j \in (i + 1)..Len(text) : text[j] \in closers
  IN  /\ text # << >>
      /\ \/ Len(text) >= MAX_BUBBLE_CHARS
         \/ sentenceCount >= MAX_SENTENCES_PER_BUBBLE
         \/ ends

shouldStartNewUtterance(previous, next) ==
  IF previous.speaker # next.speaker THEN TRUE
  ELSE IF next.timestamp - previous.timestamp > UTTERANCE_GAP_MS THEN TRUE
  ELSE IF ~previous.isFinal THEN FALSE
  ELSE hasLogicalBubbleBoundary(previous)

\* The body of the loop with isFinal taken from the merged entry alone.
CompactStepLastFinal(compacted, entry) ==
  LET nextEntry == [entry EXCEPT !.text = normalizeTranscriptText(@)]
      previous == compacted[Len(compacted)]
  IN  IF nextEntry.text = << >> THEN compacted
      ELSE IF compacted = << >> THEN << nextEntry >>
      ELSE IF shouldStartNewUtterance(previous, nextEntry)
           THEN Append(compacted, nextEntry)
      ELSE [compacted EXCEPT ![Len(compacted)] =
              [previous EXCEPT
                 !.text = mergeIncrementalTranscriptTextLib(@, nextEntry.text,
                                                            nextEntry.isFinal),
                 !.timestamp = Max(@, nextEntry.timestamp),
                 !.isFinal = nextEntry.isFinal]]

\* The body of the loop of compactTranscriptForDisplay for one entry.
CompactStep(compacted, entry) ==
  LET nextEntry == [entry EXCEPT !.text = normalizeTranscriptText(@)]
      previous == compacted[Len(compacted)]
  IN  IF nextEntry.text = << >> THEN compacted
      ELSE IF compacted = << >> THEN << nextEntry >>
      ELSE IF shouldStartNewUtterance(previous, nextEntry)
           THEN Append(compacted, nextEntry)
      ELSE [compacted EXCEPT ![Len(compacted)] =
              [previous EXCEPT
                 !.text = mergeIncrementalTranscriptTextLib(@, nextEntry.text,
                                                            nextEntry.isFinal),
                 !.timestamp = Max(@, nextEntry.timestamp),
                 !.isFinal = @ \/ nextEntry.isFinal]]

\* The loop of compactTranscriptForDisplay over the entries left in ordered.
RECURSIVE CompactFrom(_, _)
CompactFrom(ordered, compacted) ==
  IF ordered = << >> THEN compacted
  ELSE CompactFrom(Tail(ordered), CompactStep(compacted, Head(ordered)))

\* lines.slice().sort(...); the ids of the lines are the numbers of distinct
\* storage rows, so the sort order (timestamp, then Number(id)) is total.
OrderedLines(lines) ==
  LET Before(a, b) ==
        \/ a.timestamp < b.timestamp
        \/ a.timestamp = b.timestamp /\ a.id < b.id
      Place(k) == Cardinality({ m \in DOMAIN lines : Before(lines[m], lines[k]) }) + 1
  IN  [i \in DOMAIN lines |-> lines[CHOOSE k \in DOMAIN lines : Place(k) = i]]

\* compacted.length <= MAX_TRANSCRIPT_LINES ? compacted : compacted.slice(-MAX_TRANSCRIPT_LINES)
LastLines(compacted) ==
  IF Len(compacted) <= MAX_TRANSCRIPT_LINES THEN compacted
  ELSE SubSeq(compacted, Len(compacted) - MAX_TRANSCRIPT_LINES + 1, Len(compacted))

compactTranscriptForDisplay(lines) ==
  LastLines(CompactFrom(OrderedLines(lines), << >>))

(***************************************************************************)
(* Session status (live-types) and the storage collaborator (live-store)   *)
(***************************************************************************)

\* Canonical status of a provider status string, by substring.
normalizeSessionStatus(value) ==
  LET v == toLowerCase(value)
  IN  IF includes(v, << "f", "a", "i", "l" >>) \/ includes(v, << "e", "r", "r", "o", "r" >>)
        THEN "failed"
      ELSE IF \/ includes(v, << "e", "n", "d" >>)
              \/ includes(v, << "c", "o", "m", "p", "l", "e", "t", "e" >>)
              \/ includes(v, << "c", "a", "n", "c", "e", "l" >>)
        THEN "ended"
      ELSE IF includes(v, << "r", "i", "n", "g" >>) THEN "ringing"
      ELSE IF \/ includes(v, << "i", "n", "-", "p", "r", "o", "g", "r", "e", "s", "s" >>)
              \/ includes(v, << "a", "c", "t", "i", "v", "e" >>)
              \/ includes(v, << "a", "n", "s", "w", "e", "r" >>)
        THEN "live"
      ELSE "queued"

isTerminalStatus(status) == status \in { "ended", "failed" }

\* /^[a-z0-9-]{3,64}$/
SlugChars ==
  { LowerCase[i] : i \in DOMAIN LowerCase }
    \cup { "0", "1", "2", "3", "4", "5", "6", "7", "8", "9", "-" }

isValidSlug(slug) ==
  /\ slug # NULL
  /\ Len(slug) >= 3
  /\ Len(slug) <= 64
  /\ \A i \in DOMAIN slug : slug[i] \in SlugChars

\* A row of live_calls; exists is FALSE for a call that has no row.
\* lastAdviceAt is 0 while last_advice_at is null.
NoSession ==
  [exists |-> FALSE, slug |-> NULL, status |-> "queued", lastError |-> "none",
   analyzing |-> FALSE, advice |-> "default", lastAdviceAt |-> 0]

getLiveCallSummary(rows, callSid) == rows[callSid]

upsertLiveCallSession(rows, callSid, slug, status) ==
  [rows EXCEPT ![callSid] =
     IF rows[callSid].exists
     THEN [rows[callSid] EXCEPT
             !.slug = slug,
             !.status = IF status = NULL THEN rows[callSid].status
                        ELSE normalizeSessionStatus(status)]
     ELSE [NoSession EXCEPT
             !.exists = TRUE,
             !.slug = slug,
             !.status = IF status = NULL THEN "queued"
                        ELSE normalizeSessionStatus(status)]]

\* setLiveCallStatus keeping the stored lastError when it is given none.
setLiveCallStatusKeepsError(rows, callSid, status, error) ==
  IF rows[callSid].exists
  THEN [rows EXCEPT ![callSid].status = status,
                    ![callSid].lastError = IF error = "none" THEN @ ELSE error]
  ELSE rows

setLiveCallStatus(rows, callSid, status, error) ==
  IF rows[callSid].exists
  THEN [rows EXCEPT ![callSid].status = status, ![callSid].lastError = error]
  ELSE rows

setLiveCallAnalyzing(rows, callSid, flag) ==
  IF rows[callSid].exists
  THEN [rows EXCEPT ![callSid].analyzing = flag]
  ELSE rows

setLiveCallAdvice(rows, callSid, advice, error, at) ==
  IF rows[callSid].exists
  THEN [rows EXCEPT ![callSid].advice = advice,
                    ![callSid].lastError = error,
                    ![callSid].analyzing = FALSE,
                    ![callSid].lastAdviceAt = at]
  ELSE rows

\* unique (call_sid, source_event_id): a second delivery adds no row.
appendTranscriptChunk(rows, callSid, sourceEventId) ==
  IF \E i \in DOMAIN rows[callSid] : rows[callSid][i] = sourceEventId
  THEN rows
  ELSE [rows EXCEPT ![callSid] = Append(rows[callSid], sourceEventId)]

getTranscriptChunks(rows, callSid, limit) ==
  LET all == rows[callSid]
  IN  IF Len(all) <= limit THEN all
      ELSE SubSeq(all, Len(all) - limit + 1, Len(all))

(***************************************************************************)
(* Bounds and inputs                                                       *)
(***************************************************************************)

\* Webhook deliveries in a behaviour, clock ticks, storage or generation
\* calls that fail, and deliveries in a behaviour of SpecAuth.
MaxRequests == 3
MaxTicks == 1
MaxFailures == 1
AuthRequests == 1

\* Webhook deliveries in a behaviour of SpecFailed, SpecTriggers, SpecCalls.
MaxDeliveries == 2

\* Words of a text given to the merge engine.
MaxWords == 3

\* One clock tick, in milliseconds.
TickMs == 900

ADVICE_MIN_INTERVAL_MS == 900
ADVICE_TRANSCRIPT_LIMIT == 40

\* Two handlers run concurrently; each serves one delivery after another.
Slots == { 1, 2 }

\* The values the requests of the model carry.
V(name) ==
  CASE name = "CA1" -> << "C", "A", "1" >>
    [] name = "CA2" -> << "C", "A", "2" >>
    [] name = "failed" -> << "f", "a", "i", "l", "e", "d" >>
    [] name = "AC1" -> << "A", "C", "1" >>
    [] name = "AC2" -> << "A", "C", "2" >>
    [] name = "S1" -> << "S", "1" >>
    [] name = "S2" -> << "S", "2" >>
    [] name = "hi" -> << "h", "i" >>
    [] name = "ok" -> << "o", "k" >>
    [] name = "true" -> << "t", "r", "u", "e" >>
    [] name = "inProgress" -> << "i", "n", "-", "p", "r", "o", "g", "r", "e", "s", "s" >>
    [] name = "completed" -> << "c", "o", "m", "p", "l", "e", "t", "e", "d" >>
    [] name = "abc" -> << "a", "b", "c" >>
    [] name = "http" -> << "h", "t", "t", "p" >>
    [] name = "https" -> << "h", "t", "t", "p", "s" >>
    [] name = "app" -> << "a", "p", "p" >>
    [] name = "pub" -> << "p", "u", "b" >>
    [] name = "path" -> << "/", "w" >>
    [] name = "tok" -> << "t", "o", "k" >>
    [] name = "bad" -> << "b", "a", "d" >>
    [] name = "port3000" -> << "3", "0", "0", "0" >>
    [] name = "port443" -> << "4", "4", "3" >>
    [] name = "junk" -> << "h", "t", "t", "p", "s", "-", "h", "t", "t", "p" >>
    [] name = "Hi" -> << "H", "i" >>
    [] name = "TR1" -> << "T", "R", "1" >>
    [] name = "one" -> << "1" >>
    [] name = "inbound" -> << "i", "n", "b", "o", "u", "n", "d" >>
    [] name = "epochMs" -> << "1", "7", "0", "0", "0", "0", "0", "0", "0", "0", "0", "0", "0" >>
    [] name = "outbound" -> << "o", "u", "t", "b", "o", "u", "n", "d" >>
    [] name = "inboundAgent" -> << "i", "n", "b", "o", "u", "n", "d", "-", "a", "g", "e", "n", "t" >>
    [] name = "customerAgent" -> << "C", "u", "s", "t", "o", "m", "e", "r", " ", "A", "g", "e", "n", "t" >>
    [] name = "mono" -> << "m", "o", "n", "o" >>
    [] name = "false" -> << "f", "a", "l", "s", "e" >>
    [] name = "maybe" -> << "m", "a", "y", "b", "e" >>
    [] name = "content" -> << "t", "r", "a", "n", "s", "c", "r", "i", "p", "t", "i", "o", "n", "-", "c", "o", "n", "t", "e", "n", "t" >>
    [] name = "stopped" -> << "T", "r", "a", "n", "s", "c", "r", "i", "p", "t", "i", "o", "n", "-", "S", "t", "o", "p", "p", "e", "d" >>
    [] name = "docFinalTrue" -> << "{", "\"", "i", "s", "F", "i", "n", "a", "l", "\"", ":", "t", "r", "u", "e", "}" >>
    [] name = "docFinalFalse" -> << "{", "\"", "t", "e", "x", "t", "\"", ":", "\"", "h", "i", "\"", ",", "\"", "f", "i", "n", "a", "l", "\"", ":", "f", "a", "l", "s", "e", "}" >>
    [] name = "docFinalString" -> << "{", "\"", "i", "s", "F", "i", "n", "a", "l", "\"", ":", "\"", "t", "r", "u", "e", "\"", "}" >>
    [] name = "docSegment" -> << "{", "\"", "s", "e", "g", "m", "e", "n", "t", "s", "\"", ":", "[", "{", "\"", "t", "e", "x", "t", "\"", ":", "\"", "h", "i", "\"", ",", "\"", "f", "i", "n", "a", "l", "\"", ":", "\"", "n", "o", "\"", ",", "\"", "t", "r", "a", "c", "k", "\"", ":", "\"", "a", "g", "e", "n", "t", "\"", "}", "]", "}" >>
    [] name = "docText" -> << "{", "\"", "t", "r", "a", "n", "s", "c", "r", "i", "p", "t", "\"", ":", "\"", "o", "k", "\"", ",", "\"", "s", "p", "e", "a", "k", "e", "r", "\"", ":", "\"", "c", "a", "l", "l", "e", "e", "\"", "}" >>
    [] name = "docBroken" -> << "{", "\"", "t", "e", "x", "t", "\"", ":", "\"", "h", "i", "\"" >>
    [] name = "docArray" -> << "[", "{", "\"", "t", "e", "x", "t", "\"", ":", "\"", "h", "i", "\"", ",", "\"", "i", "s", "F", "i", "n", "a", "l", "\"", ":", "\"", "t", "r", "u", "e", "\"", "}", "]" >>
    [] name = "docString" -> << "\"", "h", "i", "\"" >>
    [] name = "docNull" -> << "n", "u", "l", "l" >>
    [] name = "docNumber" -> << "7" >>
    [] name = "docSequence" -> << "{", "\"", "s", "e", "q", "u", "e", "n", "c", "e", "\"", ":", "\"", "1", "\"", "}" >>
    [] name = "TR2" -> << "T", "R", "2" >>
    [] name = "two" -> << "2" >>
    [] name = "giftCards" -> << "b", "u", "y", " ", "g", "i", "f", "t", " ", "c", "a", "r", "d", "s" >>
    [] name = "giftCardsNow" -> << "b", "u", "y", " ", "g", "i", "f", "t", " ", "c", "a", "r", "d", "s", " ", "n", "o", "w" >>
    [] name = "giftCardsNowStop" -> << "b", "u", "y", " ", "g", "i", "f", "t", " ", "c", "a", "r", "d", "s", " ", "n", "o", "w", "." >>
    [] name = "iWillCall" -> << "I", " ", "w", "i", "l", "l", " ", "c", "a", "l", "l" >>

CallSids == { V("CA1"), V("CA2") }

\* TWILIO_ACCOUNT_SID and TWILIO_AUTH_TOKEN when they are set.
ConfigAccountSid == V("AC1")
ConfigAuthToken == V("tok")

\* The process environment: TWILIO_WEBHOOK_SKIP_SIGNATURE_VALIDATION, NODE_ENV
\* and whether the three Twilio variables are all set.
Envs ==
  [skipVar : { "1", "true", "unset" }, nodeEnv : { "test", "production" },
   hasConfig : BOOLEAN]

\* The request as the server sees it behind the proxy, and the public URL
\* the provider called and signed.
NoHost == [host |-> NULL, port |-> << >>]
RawUrl == [scheme |-> V("http"), host |-> V("app"), port |-> << >>, path |-> V("path")]
PublicUrl == [scheme |-> V("https"), host |-> V("pub"), port |-> << >>, path |-> V("path")]
ProxyHeaders ==
  [xForwardedHost |-> [host |-> V("pub"), port |-> << >>],
   host |-> [host |-> V("app"), port |-> << >>],
   xForwardedProto |-> V("https")]

\* The form bodies of the deliveries.  failed2 is a final transcript of a
\* second call that also reports the status failed, partial2 a partial
\* transcript of that call.
P(name) ==
  CASE name = "status" -> (K("CallSid") :> V("CA1")) @@ (K("AccountSid") :> V("AC1")) @@ (K("CallStatus") :> V("inProgress"))
    [] name = "ended" -> (K("CallSid") :> V("CA1")) @@ (K("CallStatus") :> V("completed"))
    [] name = "partial" ->
     (K("CallSid") :> V("CA1")) @@ (K("AccountSid") :> V("AC1")) @@ (K("TranscriptionText") :> V("hi"))
       @@ (K("TranscriptionSegmentSid") :> V("S1")) @@ (K("Timestamp") :> V("epochMs"))
    [] name = "final" ->
     (K("CallSid") :> V("CA1")) @@ (K("TranscriptionText") :> V("ok"))
       @@ (K("TranscriptionSegmentSid") :> V("S2")) @@ (K("IsFinal") :> V("true"))
       @@ (K("Timestamp") :> V("epochMs"))
    [] name = "noCall" -> (K("AccountSid") :> V("AC1")) @@ (K("CallStatus") :> V("inProgress"))
    [] name = "otherAccount" -> (K("CallSid") :> V("CA1")) @@ (K("AccountSid") :> V("AC2")) @@ (K("CallStatus") :> V("inProgress"))
    [] name = "failed2" ->
     (K("CallSid") :> V("CA2")) @@ (K("CallStatus") :> V("failed")) @@ (K("TranscriptionText") :> V("ok"))
       @@ (K("TranscriptionSegmentSid") :> V("S1")) @@ (K("IsFinal") :> V("true"))
       @@ (K("Timestamp") :> V("epochMs"))
    [] name = "partial2" ->
     (K("CallSid") :> V("CA2")) @@ (K("TranscriptionText") :> V("hi"))
       @@ (K("TranscriptionSegmentSid") :> V("S2")) @@ (K("Timestamp") :> V("epochMs"))

\* The x-twilio-signature header; a missing header has length 0.
NoSignature == [len |-> 0, mac |-> << >>]
Signed(params) == computeTwilioSignature(ConfigAuthToken, UrlToString(PublicUrl), params)

Req(params, slug, signature) ==
  [url |-> RawUrl, headers |-> ProxyHeaders, bodyParams |-> params,
   slugFromQuery |-> slug, signature |-> signature]

\* The webhook deliveries the handlers receive.
Requests ==
  LET Delivery(params, slug) == Req(params, slug, Signed(params))
      BadToken(params, slug) ==
        Req(params, slug, computeTwilioSignature(V("bad"), UrlToString(PublicUrl), params))
  IN  << Delivery(P("partial"), V("abc")),
         Delivery(P("final"), V("abc")),
         Delivery(P("status"), V("abc")),
         Delivery(P("ended"), NULL),
         Delivery(P("partial"), NULL),
         Delivery(P("noCall"), V("abc")),
         Delivery(P("otherAccount"), V("abc")),
         Req(P("final"), V("abc"), NoSignature),
         BadToken(P("partial"), V("abc")),
         Req(P("final"), V("abc"), Signed(P("partial"))),
         Delivery(P("failed2"), V("abc")),
         Delivery(P("partial2"), NULL) >>

\* The signature header of a request: missing, matching some URL candidate
\* under the configured auth token, or matching none.
SignatureClass(rq) ==
  LET candidates == buildTwilioUrlCandidates(rq.url, rq.headers)
  IN  IF rq.signature = NoSignature THEN "missing"
      ELSE IF \E c \in candidates :
                rq.signature = computeTwilioSignature(ConfigAuthToken, c, rq.bodyParams)
        THEN "valid"
      ELSE "invalid"

\* Date.now() when the process starts, and the times it can show later.
StartNow == ADVICE_MIN_INTERVAL_MS
ClockValues == { StartNow + k * TickMs : k \in 0..MaxTicks }

\* What the handler computes from a request before its first storage call:
\* the signature check, and the event parsed at each time of ClockValues.
Digest ==
  LET Of(rq) ==
        [signature |-> rq.signature,
         signatureClass |-> SignatureClass(rq),
         validSignature |->
           isValidTwilioSignature(
             ConfigAuthToken, rq.signature,
             buildTwilioUrlCandidates(rq.url, rq.headers), rq.bodyParams),
         event |->
           [clock \in ClockValues |->
              parseTwilioWebhookEvent(rq.bodyParams, rq.slugFromQuery, clock)]]
      All(requests) == [i \in DOMAIN requests |-> Of(requests[i])]
  IN  All(Requests)

(***************************************************************************)
(* State                                                                   *)
(***************************************************************************)

VARIABLES
  env,          \* the process environment
  now,          \* Date.now()
  pool,         \* the requests (indices of Requests) that may arrive
  reqLeft,      \* webhook deliveries still to arrive
  failLeft,     \* storage or generation calls that may still fail
  sessions,     \* live_calls, by call sid
  chunks,       \* live_transcript_chunks: source event ids by call sid, oldest first
  adviceState,  \* globalThis.__twilioAdviceRunState, by call sid
  h,            \* the webhook handlers: position and locals of each POST
  g,            \* history of the scheduler, by call sid
  sigIn,        \* inputs of a signature check taken alone
  sigOut,       \* its result
  parseIn,      \* a webhook payload and the payload of its retry, one delivery,
                \* or the deliveries of the end-to-end scenario
  parseOut,     \* the transcripts, or the event, parseTwilioWebhookEvent made of
                \* them; in the scenario, the transcript rows stored
  mergeIn,      \* inputs of a transcript merge taken alone
  mergeOut,     \* its result; in the scenario, lib is the transcript the panel displays
  tenants,      \* tenants.phone_number of the tenant
  puts,         \* the PUT /api/tenant/phone handlers: position and locals of each
  panel,        \* the React state of the live panel
  effects,      \* the instances of the panel's live-update effect, oldest first
  changes,      \* realtime row changes not yet delivered to a channel callback
  display       \* the loop of compactTranscriptForDisplay over the lines of the panel

vars ==
  << env, pool, now, reqLeft, failLeft, sessions, chunks, adviceState, h, g,
     sigIn, sigOut, parseIn, parseOut, mergeIn, mergeOut,
     tenants, puts, panel, effects, changes, display >>

\* The variables of the phone route and of the panel.
pageVars == << tenants, puts, panel, effects, changes, display >>

\* The variables of the functions taken alone.
fnVars == << sigIn, sigOut, parseIn, parseOut, mergeIn, mergeOut >>

NoSummary == [exists |-> FALSE, slug |-> NULL, lastAdviceAt |-> 0]

\* The event of a handler that serves no request.
NoEvent ==
  [callSid |-> NULL, accountSid |-> NULL, slug |-> NULL, status |-> NULL,
   transcript |-> NoTranscript]

\* pc is the await the handler is suspended at ("done" once it has answered);
\* event is the parsed event of the request it is serving; sig tells whether
\* the request's signature header was "missing", "invalid" (it matches no URL
\* candidate) or "valid"; resp is the HTTP status it answered with (0: none
\* yet) and error the error of the response body; force, summary and
\* transcript are the locals of runAdviceForCall and POST; err tells that the
\* awaited call rejects; parsed tells that the handler went on to
\* parseTwilioWebhookEvent, acted that it has made a storage call, duplicate
\* that its appendTranscriptChunk found the chunk's row in storage.
IdleHandler ==
  [pc |-> "idle", event |-> NoEvent, sig |-> "none", resp |-> 0, error |-> "none",
   force |-> FALSE, summary |-> NoSummary, transcript |-> << >>, err |-> FALSE,
   parsed |-> FALSE, acted |-> FALSE, duplicate |-> FALSE]

\* owed: "owed" once a trigger was coalesced into a run, "fetched" once the
\* run has read the transcript after it, "none" once it has generated from
\* that window.  runGens: generateLiveAdvice invocations of the current run.
\* coalesced: triggers coalesced into the current run (counted up to 2).
\* lateTrigger: one of them arrived at another time than during the run's
\* first generation.  analyzed: chunks that were in the window of a
\* generateLiveAdvice invocation.  unanalyzed: chunks whose trigger has been
\* issued and that were in no window yet.  settled: for each provider status
\* whose webhook has been processed up to the end of setLiveCallStatus, the
\* status and lastError the first such processing stored.
NoHistory ==
  [owed |-> "none", runGens |-> 0, coalesced |-> 0, lateTrigger |-> FALSE,
   analyzed |-> {}, unanalyzed |-> {}, settled |-> {}]

\* The history after the webhook of a provider status has been processed.
Settle(hist, callSid, provider, status, error) ==
  IF \E first \in hist[callSid].settled : first.provider = provider THEN hist
  ELSE [hist EXCEPT ![callSid].settled =
          @ \cup { [provider |-> provider, status |-> status, lastError |-> error] }]

\* No call of a function taken alone.
NoInput == [kind |-> "none"]

IdleSig == sigIn = NoInput /\ sigOut = "none"
IdleParse == parseIn = NoInput /\ parseOut = << >>
\* again holds the results of the second application, once it was made.
NoMergeOut == [done |-> FALSE, engine |-> << >>, lib |-> << >>, again |-> << >>]
IdleMerge == mergeIn = NoInput /\ mergeOut = NoMergeOut

\* No phone request and no panel.
IdlePage ==
  /\ tenants = NULL
  /\ puts = << >>
  /\ panel = << >>
  /\ effects = << >>
  /\ changes = << >>
  /\ display = << >>

InitCommon ==
  /\ now = StartNow
  /\ failLeft = MaxFailures
  /\ sessions = [c \in CallSids |-> NoSession]
  /\ chunks = [c \in CallSids |-> << >>]
  /\ adviceState = [c \in CallSids |-> [running |-> FALSE, pending |-> FALSE, lastRunAt |-> 0]]
  /\ h = [r \in Slots |-> IdleHandler]
  /\ g = [c \in CallSids |-> NoHistory]

\* A production deployment: validation on, Twilio credentials set.
ProductionEnv == [skipVar |-> "unset", nodeEnv |-> "production", hasConfig |-> TRUE]

\* The production deployment receiving n of the properly signed deliveries
\* of deliveries, in any order and repeatedly.
InitPool(deliveries, n) ==
  /\ InitCommon
  /\ IdlePage
  /\ env = ProductionEnv
  /\ pool = deliveries
  /\ reqLeft = n
  /\ IdleSig
  /\ IdleParse
  /\ IdleMerge

\* Any environment and any request of Requests, delivered one at a time.
InitAuth ==
  /\ InitCommon
  /\ IdlePage
  /\ env \in Envs
  /\ pool = DOMAIN Requests
  /\ reqLeft = AuthRequests
  /\ IdleSig
  /\ IdleParse
  /\ IdleMerge

(***************************************************************************)
(* The webhook handler POST and runAdviceForCall                           *)
(***************************************************************************)

\* shouldSkipTwilioWebhookValidation testing the variable for being set.
shouldSkipWhenSet(e) ==
  e.skipVar # "unset" \/ e.nodeEnv = "test"

shouldSkipTwilioWebhookValidation(e) ==
  e.skipVar = "1" \/ e.nodeEnv = "test"

Event(hr) == hr.event

Range(f) == { f[i] : i \in DOMAIN f }

Fails == IF failLeft > 0 THEN { FALSE, TRUE } ELSE { FALSE }

Charge(fails) == IF fails THEN failLeft - 1 ELSE failLeft

Update(r, hr, rows, chunkRows, store, hist, fl) ==
  /\ h' = [h EXCEPT ![r] = hr]
  /\ sessions' = rows
  /\ chunks' = chunkRows
  /\ adviceState' = store
  /\ g' = hist
  /\ failLeft' = fl
  /\ UNCHANGED << env, pool, now, fnVars, pageVars >>

\* return NextResponse.json(..., { status: code })
Finish(hr, code, error) ==
  [hr EXCEPT !.pc = "done", !.event = NoEvent, !.resp = code, !.error = error, !.force = FALSE,
             !.summary = NoSummary, !.transcript = << >>, !.err = FALSE,
             !.duplicate = FALSE]

Respond(r, hr, code, error) ==
  Update(r, Finish(hr, code, error), sessions, chunks, adviceState, g, failLeft)

\* await getLiveCallSummary(event.callSid), for the slug
CallSlugLookup(r, hr) ==
  \E fails \in Fails :
    LET row == getLiveCallSummary(sessions, Event(hr).callSid)
    IN  Update(r,
          [hr EXCEPT !.pc = "slugLookup", !.err = fails, !.acted = TRUE,
                     !.summary = IF fails \/ ~row.exists THEN NoSummary
                                 ELSE [exists |-> TRUE, slug |-> row.slug,
                                       lastAdviceAt |-> row.lastAdviceAt]],
          sessions, chunks, adviceState, g, Charge(fails))

\* await upsertLiveCallSession({ callSid, slug, status })
CallUpsert(r, hr, slug) ==
  \E fails \in Fails :
    Update(r,
      [hr EXCEPT !.pc = "upsert", !.err = fails, !.acted = TRUE, !.summary = NoSummary],
      IF fails THEN sessions
      ELSE upsertLiveCallSession(sessions, Event(hr).callSid, slug, Event(hr).status),
      chunks, adviceState, g, Charge(fails))

\* The characters of a text as one string: `...${event.status}...`
RECURSIVE Str(_)
Str(text) == IF text = << >> THEN "" ELSE Head(text) \o Str(Tail(text))

\* CallSetStatus with the error message written for every terminal status.
CallSetStatusTerminalError(r, hr) ==
  \E fails \in Fails :
    LET status == normalizeSessionStatus(Event(hr).status)
        statusError == IF isTerminalStatus(status)
                         THEN "Call status changed to " \o Str(Event(hr).status) \o "."
                       ELSE "none"
    IN  Update(r,
          [hr EXCEPT !.pc = "setStatus", !.err = fails],
          IF fails THEN sessions
          ELSE setLiveCallStatus(sessions, Event(hr).callSid, status, statusError),
          chunks, adviceState,
          IF fails THEN g
          ELSE Settle(g, Event(hr).callSid, Event(hr).status, status, statusError),
          Charge(fails))

\* await setLiveCallStatus(event.callSid, status, statusError)
CallSetStatus(r, hr) ==
  \E fails \in Fails :
    LET status == normalizeSessionStatus(Event(hr).status)
        statusError == IF status = "failed"
                         THEN "Call status changed to " \o Str(Event(hr).status) \o "."
                       ELSE "none"
    IN  Update(r,
          [hr EXCEPT !.pc = "setStatus", !.err = fails],
          IF fails THEN sessions
          ELSE setLiveCallStatus(sessions, Event(hr).callSid, status, statusError),
          chunks, adviceState,
          IF fails THEN g
          ELSE Settle(g, Event(hr).callSid, Event(hr).status, status, statusError),
          Charge(fails))

\* await appendTranscriptChunk({ ... })
CallAppend(r, hr) ==
  \E fails \in Fails :
    Update(r,
      [hr EXCEPT !.pc = "append", !.err = fails,
                 !.duplicate =
                   ~fails /\ \E i \in DOMAIN chunks[Event(hr).callSid] :
                               chunks[Event(hr).callSid][i] = Event(hr).transcript.sourceEventId],
      sessions,
      IF fails THEN chunks
      ELSE appendTranscriptChunk(chunks, Event(hr).callSid,
                                 Event(hr).transcript.sourceEventId),
      adviceState, g, Charge(fails))

\* if (event.transcript) { ... } return NextResponse.json({ ok: true })
AfterStatus(r, hr) ==
  IF Event(hr).transcript.text # NULL THEN CallAppend(r, hr)
  ELSE Respond(r, hr, 200, "none")

\* The end of a run without the finally block: running stays set.
ExitRunKeepRunning(r, hr, store, hist, code) ==
  LET c == Event(hr).callSid
  IN  Update(r, Finish(hr, code, IF code = 200 THEN "none" ELSE "processing"),
             sessions, chunks, store,
             [hist EXCEPT ![c].runGens = 0, ![c].coalesced = 0,
                          ![c].lateTrigger = FALSE],
             failLeft)

\* finally { current.running = false }, then the handler answers.
ExitRun(r, hr, store, hist, code) ==
  LET c == Event(hr).callSid
  IN  Update(r, Finish(hr, code, IF code = 200 THEN "none" ELSE "processing"),
             sessions, chunks,
             [store EXCEPT ![c].running = FALSE],
             [hist EXCEPT ![c].runGens = 0, ![c].coalesced = 0,
                          ![c].lateTrigger = FALSE],
             failLeft)

\* The top of the loop without current.pending = false.
LoopTopKeepPending(r, hr, store, hist) ==
  \E fails \in Fails :
    LET c == Event(hr).callSid
        row == getLiveCallSummary(sessions, c)
    IN  Update(r,
          [hr EXCEPT !.pc = "summary", !.err = fails,
                     !.summary = IF fails \/ ~row.exists THEN NoSummary
                                 ELSE [exists |-> TRUE, slug |-> row.slug,
                                       lastAdviceAt |-> row.lastAdviceAt]],
          sessions, chunks, store, hist, Charge(fails))

\* The top of the loop: current.pending = false; await getLiveCallSummary.
LoopTop(r, hr, store, hist) ==
  \E fails \in Fails :
    LET c == Event(hr).callSid
        row == getLiveCallSummary(sessions, c)
    IN  Update(r,
          [hr EXCEPT !.pc = "summary", !.err = fails,
                     !.summary = IF fails \/ ~row.exists THEN NoSummary
                                 ELSE [exists |-> TRUE, slug |-> row.slug,
                                       lastAdviceAt |-> row.lastAdviceAt]],
          sessions, chunks, [store EXCEPT ![c].pending = FALSE], hist, Charge(fails))

\* A generateLiveAdvice invocation for call c is in flight.
Generating(c) ==
  \E s \in Slots : h[s].pc = "generate" /\ Event(h[s]).callSid = c

\* runAdviceForCall without the check of current.running.
runAdviceForCallNoRunningCheck(r, hr, force) ==
  LET c == Event(hr).callSid
      current == adviceState[c]
      id == Event(hr).transcript.sourceEventId
      hist == [g EXCEPT ![c].unanalyzed =
                          IF id \in g[c].analyzed THEN @ ELSE @ \cup { id }]
  IN  IF ~force /\ now - current.lastRunAt < ADVICE_MIN_INTERVAL_MS
      THEN Update(r, Finish(hr, 200, "none"), sessions, chunks, adviceState, hist, failLeft)
      ELSE LoopTop(r, [hr EXCEPT !.force = force],
                   [adviceState EXCEPT ![c].running = TRUE], hist)

\* runAdviceForCall debouncing a forced trigger as well.
runAdviceForCallDebounceForced(r, hr, force) ==
  LET c == Event(hr).callSid
      current == adviceState[c]
      id == Event(hr).transcript.sourceEventId
      hist == [g EXCEPT ![c].unanalyzed =
                          IF id \in g[c].analyzed THEN @ ELSE @ \cup { id }]
  IN  IF current.running
      THEN Update(r, Finish(hr, 200, "none"), sessions, chunks,
                  [adviceState EXCEPT ![c].pending = TRUE],
                  [hist EXCEPT ![c].owed = "owed",
                               ![c].coalesced = Min(@ + 1, 2),
                               ![c].lateTrigger =
                                 @ \/ ~(Generating(c) /\ g[c].runGens = 1)],
                  failLeft)
      ELSE IF now - current.lastRunAt < ADVICE_MIN_INTERVAL_MS
      THEN Update(r, Finish(hr, 200, "none"), sessions, chunks, adviceState, hist, failLeft)
      ELSE LoopTop(r, [hr EXCEPT !.force = force],
                   [adviceState EXCEPT ![c].running = TRUE], hist)

\* runAdviceForCall with one running flag for all the calls.
runAdviceForCallSharedRunning(r, hr, force) ==
  LET c == Event(hr).callSid
      current == adviceState[c]
      id == Event(hr).transcript.sourceEventId
      hist == [g EXCEPT ![c].unanalyzed =
                          IF id \in g[c].analyzed THEN @ ELSE @ \cup { id }]
  IN  IF \E other \in CallSids : adviceState[other].running
      THEN Update(r, Finish(hr, 200, "none"), sessions, chunks,
                  [adviceState EXCEPT ![c].pending = TRUE],
                  [hist EXCEPT ![c].owed = "owed",
                               ![c].coalesced = Min(@ + 1, 2),
                               ![c].lateTrigger =
                                 @ \/ ~(Generating(c) /\ g[c].runGens = 1)],
                  failLeft)
      ELSE IF ~force /\ now - current.lastRunAt < ADVICE_MIN_INTERVAL_MS
      THEN Update(r, Finish(hr, 200, "none"), sessions, chunks, adviceState, hist, failLeft)
      ELSE LoopTop(r, [hr EXCEPT !.force = force],
                   [adviceState EXCEPT ![c].running = TRUE], hist)

\* runAdviceForCall(callSid, force), up to its first await.
runAdviceForCall(r, hr, force) ==
  LET c == Event(hr).callSid
      current == adviceState[c]
      id == Event(hr).transcript.sourceEventId
      hist == [g EXCEPT ![c].unanalyzed =
                          IF id \in g[c].analyzed THEN @ ELSE @ \cup { id }]
  IN  IF current.running
      THEN Update(r, Finish(hr, 200, "none"), sessions, chunks,
                  [adviceState EXCEPT ![c].pending = TRUE],
                  [hist EXCEPT ![c].owed = "owed",
                               ![c].coalesced = Min(@ + 1, 2),
                               ![c].lateTrigger =
                                 @ \/ ~(Generating(c) /\ g[c].runGens = 1)],
                  failLeft)
      ELSE IF ~force /\ now - current.lastRunAt < ADVICE_MIN_INTERVAL_MS
      THEN Update(r, Finish(hr, 200, "none"), sessions, chunks, adviceState, hist, failLeft)
      ELSE LoopTop(r, [hr EXCEPT !.force = force],
                   [adviceState EXCEPT ![c].running = TRUE], hist)

\* POST up to its first storage call.
Receive(r) ==
  /\ h[r].pc \in { "idle", "done" }
  /\ reqLeft > 0
  /\ reqLeft' = reqLeft - 1
  /\ \E i \in pool : \E d \in { Digest[i] } :
       LET h0 == [IdleHandler EXCEPT !.sig = d.signatureClass]
           event == d.event[now]
           hr == [h0 EXCEPT !.parsed = TRUE, !.event = event]
           skipValidation == shouldSkipTwilioWebhookValidation(env)
       IN  IF ~env.hasConfig /\ ~skipValidation THEN Respond(r, h0, 500, "config")
           ELSE IF ~skipValidation /\ d.signature.len = 0
             THEN Respond(r, h0, 401, "missing-signature")
           ELSE IF ~skipValidation /\ d.validSignature = "throw"
             THEN Respond(r, h0, 500, "unhandled")
           ELSE IF ~skipValidation /\ d.validSignature = "false"
             THEN Respond(r, h0, 401, "invalid-signature")
           ELSE IF event.callSid = NULL THEN Respond(r, hr, 200, "none")
           ELSE IF /\ env.hasConfig
                   /\ event.accountSid # NULL
                   /\ event.accountSid # ConfigAccountSid
             THEN Respond(r, hr, 401, "account-mismatch")
           ELSE IF isValidSlug(event.slug) THEN CallUpsert(r, hr, event.slug)
           ELSE CallSlugLookup(r, hr)

\* slug = existing?.slug ?? null
SlugLookupReturn(r) ==
  /\ h[r].pc = "slugLookup"
  /\ UNCHANGED reqLeft
  /\ IF h[r].err THEN Respond(r, h[r], 500, "processing")
     ELSE IF ~h[r].summary.exists THEN Respond(r, h[r], 400, "missing-slug")
     ELSE CallUpsert(r, h[r], h[r].summary.slug)

\* UpsertReturn without the call of setLiveCallStatus.
UpsertReturnSkipsStatus(r) ==
  /\ h[r].pc = "upsert"
  /\ UNCHANGED reqLeft
  /\ IF h[r].err THEN Respond(r, h[r], 500, "processing")
     ELSE AfterStatus(r, h[r])

UpsertReturn(r) ==
  /\ h[r].pc = "upsert"
  /\ UNCHANGED reqLeft
  /\ IF h[r].err THEN Respond(r, h[r], 500, "processing")
     ELSE IF Event(h[r]).status # NULL THEN CallSetStatus(r, h[r])
     ELSE AfterStatus(r, h[r])

SetStatusReturn(r) ==
  /\ h[r].pc = "setStatus"
  /\ UNCHANGED reqLeft
  /\ IF h[r].err THEN Respond(r, h[r], 500, "processing")
     ELSE AfterStatus(r, h[r])

\* AppendReturn answering a duplicate chunk as an error.
AppendReturnDuplicateIsError(r) ==
  /\ h[r].pc = "append"
  /\ UNCHANGED reqLeft
  /\ IF h[r].err \/ h[r].duplicate THEN Respond(r, h[r], 500, "processing")
     ELSE LET status == Event(h[r]).status
              normalizedStatus ==
                normalizeSessionStatus(IF status = NULL THEN << >> ELSE status)
              callEnded == isTerminalStatus(normalizedStatus)
          IN  runAdviceForCall(r, h[r], Event(h[r]).transcript.isFinal \/ callEnded)

\* AppendReturn going on to the trigger after a rejected append.
AppendReturnIgnoresError(r) ==
  /\ h[r].pc = "append"
  /\ UNCHANGED reqLeft
  /\ LET status == Event(h[r]).status
         normalizedStatus ==
           normalizeSessionStatus(IF status = NULL THEN << >> ELSE status)
         callEnded == isTerminalStatus(normalizedStatus)
     IN  runAdviceForCall(r, h[r], Event(h[r]).transcript.isFinal \/ callEnded)

\* await runAdviceForCall(event.callSid, event.transcript.isFinal || callEnded)
AppendReturn(r) ==
  /\ h[r].pc = "append"
  /\ UNCHANGED reqLeft
  /\ IF h[r].err THEN Respond(r, h[r], 500, "processing")
     ELSE LET status == Event(h[r]).status
              normalizedStatus ==
                normalizeSessionStatus(IF status = NULL THEN << >> ELSE status)
              callEnded == isTerminalStatus(normalizedStatus)
          IN  runAdviceForCall(r, h[r], Event(h[r]).transcript.isFinal \/ callEnded)

\* if (!summary) break; the rate-limit skip; await getTranscriptChunks.
SummaryReturn(r) ==
  /\ h[r].pc = "summary"
  /\ UNCHANGED reqLeft
  /\ LET c == Event(h[r]).callSid
         summary == h[r].summary
     IN  IF h[r].err THEN ExitRun(r, h[r], adviceState, g, 500)
         ELSE IF ~summary.exists THEN ExitRun(r, h[r], adviceState, g, 200)
         ELSE IF /\ ~h[r].force
                 /\ summary.lastAdviceAt # 0
                 /\ now - summary.lastAdviceAt < ADVICE_MIN_INTERVAL_MS
                 /\ now - adviceState[c].lastRunAt < ADVICE_MIN_INTERVAL_MS
           THEN ExitRun(r, h[r], adviceState, g, 200)
         ELSE \E fails \in Fails :
                Update(r,
                  [h[r] EXCEPT !.pc = "chunks", !.err = fails, !.summary = NoSummary,
                               !.transcript =
                                 IF fails THEN << >>
                                 ELSE getTranscriptChunks(chunks, c, ADVICE_TRANSCRIPT_LIMIT)],
                  sessions, chunks, adviceState,
                  [g EXCEPT ![c].owed = IF ~fails /\ @ = "owed" THEN "fetched" ELSE @],
                  Charge(fails))

\* if (transcript.length === 0) break; await setLiveCallAnalyzing(true).catch
ChunksReturn(r) ==
  /\ h[r].pc = "chunks"
  /\ UNCHANGED reqLeft
  /\ LET c == Event(h[r]).callSid
     IN  IF h[r].err THEN ExitRun(r, h[r], adviceState, g, 500)
         ELSE IF Len(h[r].transcript) = 0 THEN ExitRun(r, h[r], adviceState, g, 200)
         ELSE \E fails \in Fails :
                Update(r, [h[r] EXCEPT !.pc = "analyzing", !.err = fails],
                       IF fails THEN sessions ELSE setLiveCallAnalyzing(sessions, c, TRUE),
                       chunks, adviceState, g, Charge(fails))

\* generateLiveAdvice({ transcript }) is invoked.
AnalyzingReturn(r) ==
  /\ h[r].pc = "analyzing"
  /\ UNCHANGED reqLeft
  /\ LET c == Event(h[r]).callSid
     IN  Update(r, [h[r] EXCEPT !.pc = "generate", !.err = FALSE],
                sessions, chunks, adviceState,
                [g EXCEPT ![c].runGens = @ + 1,
                          ![c].owed = IF @ = "fetched" THEN "none" ELSE @,
                          ![c].analyzed = @ \cup Range(h[r].transcript),
                          ![c].unanalyzed = @ \ Range(h[r].transcript)],
                failLeft)

\* The fallback of the catch: await setLiveCallAdvice(default, notice).catch
CallSetAdviceFallback(r, hr) ==
  \E fails \in Fails :
    LET c == Event(hr).callSid
    IN  Update(r, [hr EXCEPT !.pc = "setAdviceFallback", !.err = fails],
               IF fails THEN sessions
               ELSE setLiveCallAdvice(sessions, c, "default", "delayed", now),
               chunks, adviceState, g, Charge(fails))

\* generateLiveAdvice resolves (await setLiveCallAdvice(advice, null)) or
\* rejects (the fallback).  A rejected generation and the rejection of the
\* fallback store that follows it count as one failure of MaxFailures.
GenerateReturn(r) ==
  /\ h[r].pc = "generate"
  /\ UNCHANGED reqLeft
  /\ LET c == Event(h[r]).callSid
     IN  \/ \E fails \in Fails :
              Update(r, [h[r] EXCEPT !.pc = "setAdvice", !.err = fails],
                     IF fails THEN sessions
                     ELSE setLiveCallAdvice(sessions, c, "generated", "none", now),
                     chunks, adviceState, g, Charge(fails))
         \/ /\ failLeft > 0
            /\ \E fails \in { FALSE, TRUE } :
                 Update(r, [h[r] EXCEPT !.pc = "setAdviceFallback", !.err = fails],
                        IF fails THEN sessions
                        ELSE setLiveCallAdvice(sessions, c, "default", "delayed", now),
                        chunks, adviceState, g, failLeft - 1)

\* current.lastRunAt = Date.now(); force = false; shouldRun = current.pending
IterationEnd(r, hr) ==
  LET c == Event(hr).callSid
      store == [adviceState EXCEPT ![c].lastRunAt = now]
      shouldRun == adviceState[c].pending
  IN  IF shouldRun THEN LoopTop(r, [hr EXCEPT !.force = FALSE, !.err = FALSE], store, g)
      ELSE ExitRun(r, hr, store, g, 200)

SetAdviceReturn(r) ==
  /\ h[r].pc = "setAdvice"
  /\ UNCHANGED reqLeft
  /\ IF h[r].err THEN CallSetAdviceFallback(r, h[r])
     ELSE IterationEnd(r, h[r])

\* SetAdviceFallbackReturn without the .catch(() => {}) on the fallback store.
SetAdviceFallbackReturnThrows(r) ==
  /\ h[r].pc = "setAdviceFallback"
  /\ UNCHANGED reqLeft
  /\ IF h[r].err THEN ExitRun(r, h[r], adviceState, g, 500)
     ELSE IterationEnd(r, h[r])

SetAdviceFallbackReturn(r) ==
  /\ h[r].pc = "setAdviceFallback"
  /\ UNCHANGED reqLeft
  /\ IterationEnd(r, h[r])

\* A timestamp younger than the minimum interval.
Fresh(at) == at # 0 /\ now - at < ADVICE_MIN_INTERVAL_MS

\* Time passes.  Only differences of Date.now() and the stored timestamps are
\* ever compared, so time is let pass while some stored timestamp is fresh:
\* at any other moment its passing changes the outcome of no comparison.
Tick ==
  /\ now < StartNow + MaxTicks * TickMs
  /\ \E c \in CallSids : Fresh(adviceState[c].lastRunAt) \/ Fresh(sessions[c].lastAdviceAt)
  /\ now' = now + TickMs
  /\ UNCHANGED << env, pool, reqLeft, failLeft, sessions, chunks, adviceState, h, g, fnVars, pageVars >>

Next ==
  \/ \E r \in Slots : Receive(r)
  \/ \E r \in Slots : SlugLookupReturn(r)
  \/ \E r \in Slots : UpsertReturn(r)
  \/ \E r \in Slots : SetStatusReturn(r)
  \/ \E r \in Slots : AppendReturn(r)
  \/ \E r \in Slots : SummaryReturn(r)
  \/ \E r \in Slots : ChunksReturn(r)
  \/ \E r \in Slots : AnalyzingReturn(r)
  \/ \E r \in Slots : GenerateReturn(r)
  \/ \E r \in Slots : SetAdviceReturn(r)
  \/ \E r \in Slots : SetAdviceFallbackReturn(r)
  \/ Tick

\* The transcript events of one call (a partial, a final) and the status
\* event that ends it.
Spec == InitPool({ 1, 2, 4 }, MaxRequests) /\ [][Next]_vars

SpecAuth == InitAuth /\ [][Next]_vars

\* Up to MaxRequests transcript events of a call: a final, and a partial.
SpecCoalesce == InitPool({ 11, 12 }, MaxRequests) /\ [][Next]_vars

\* The transcript events of a call that fails: a final that reports the
\* failure, and a partial.
SpecTriggers == InitPool({ 11, 12 }, MaxDeliveries) /\ [][Next]_vars

\* The transcript events of two calls: a partial of one, a final and a
\* partial of the other.
SpecCalls == InitPool({ 1, 11, 12 }, MaxDeliveries) /\ [][Next]_vars

\* The awaited call of handler r returns or throws.
Continue(r) ==
  \/ SlugLookupReturn(r)
  \/ UpsertReturn(r)
  \/ SetStatusReturn(r)
  \/ AppendReturn(r)
  \/ SummaryReturn(r)
  \/ ChunksReturn(r)
  \/ AnalyzingReturn(r)
  \/ GenerateReturn(r)
  \/ SetAdviceReturn(r)
  \/ SetAdviceFallbackReturn(r)

\* Every awaited call returns or throws: a handler that waits for one is
\* eventually resumed. The deliveries are those of SpecTriggers, finitely many.
Fairness == \A r \in Slots : WF_vars(Continue(r))

SpecLive == InitPool({ 11, 12 }, MaxDeliveries) /\ [][Next]_vars /\ Fairness

\* The status events of two calls: in-progress, completed, failed.
SpecFailed == InitPool({ 3, 4, 11 }, MaxDeliveries) /\ [][Next]_vars

\* A transcript event of a call and its status events: in-progress, completed.
SpecStatus == InitPool({ 2, 3, 4 }, MaxRequests) /\ [][Next]_vars

(***************************************************************************)
(* Signature verification taken alone                                      *)
(***************************************************************************)

\* A parameter map signed under one URL and checked under another URL and
\* another parameter map.
TamperUrls == { << "u" >>, << "u", "a" >> }
TamperKeys == { << "a" >>, << "a", "b" >> }
TamperValues == { << >>, << "b" >>, << "c" >>, << "b", "c" >> }
TamperParams == UNION { [ks -> TamperValues] : ks \in SUBSET TamperKeys }

TamperInputs ==
  [kind : { "tamper" }, url : TamperUrls, params : TamperParams,
   url2 : TamperUrls, params2 : TamperParams]

\* A request with its forwarding headers and signature header.
Malformed == [scheme |-> NULL, host |-> NULL, port |-> << >>, path |-> << >>]

RequestInputs ==
  [kind : { "request" },
   url : { RawUrl, [RawUrl EXCEPT !.port = V("port3000")], PublicUrl, Malformed },
   headers :
     [xForwardedHost : { NoHost, [host |-> V("pub"), port |-> << >>],
                         [host |-> V("pub"), port |-> V("port443")] },
      host : { NoHost, [host |-> V("app"), port |-> << >>] },
      xForwardedProto : { NULL, V("https"), V("junk") }],
   signature :
     { Signed(P("partial")),
       computeTwilioSignature(ConfigAuthToken, UrlToString(RawUrl), P("partial")),
       computeTwilioSignature(V("bad"), UrlToString(PublicUrl), P("partial")),
       [len |-> 5, mac |-> << >>],
       NoSignature },
   params : { P("partial"), P("final") }]

InitSig ==
  /\ InitCommon
  /\ IdlePage
  /\ env = ProductionEnv
  /\ pool = {}
  /\ reqLeft = 0
  /\ sigIn \in TamperInputs \cup RequestInputs
  /\ sigOut = "none"
  /\ IdleParse
  /\ IdleMerge

\* The provider signs (url, params); the server checks the signature against
\* (url2, params2).
VerifyTampered ==
  /\ sigIn.kind = "tamper"
  /\ sigOut = "none"
  /\ sigOut' = isValidTwilioSignature(
                  ConfigAuthToken,
                  computeTwilioSignature(ConfigAuthToken, sigIn.url, sigIn.params),
                  { sigIn.url2 }, sigIn.params2)
  /\ UNCHANGED << env, pool, now, reqLeft, failLeft, sessions, chunks, adviceState,
                  h, g, sigIn, parseIn, parseOut, mergeIn, mergeOut, pageVars >>

\* buildTwilioUrlCandidates, then isValidTwilioSignature, as POST calls them.
VerifyRequest ==
  /\ sigIn.kind = "request"
  /\ sigOut = "none"
  /\ sigOut' = isValidTwilioSignature(
                  ConfigAuthToken, sigIn.signature,
                  buildTwilioUrlCandidates(sigIn.url, sigIn.headers), sigIn.params)
  /\ UNCHANGED << env, pool, now, reqLeft, failLeft, sessions, chunks, adviceState,
                  h, g, sigIn, parseIn, parseOut, mergeIn, mergeOut, pageVars >>

NextSig == VerifyTampered \/ VerifyRequest

SpecSig == InitSig /\ [][NextSig]_vars

(***************************************************************************)
(* Event normalisation taken alone: a delivery and its retry                *)
(***************************************************************************)


\* The form body with the fields that are present (not NULL).
Payload(text, segmentSid, transcriptionSid, sequenceId, timestamp, track) ==
  LET all == (K("CallSid") :> V("CA1")) @@ (K("TranscriptionText") :> text)
               @@ (K("TranscriptionSegmentSid") :> segmentSid)
               @@ (K("TranscriptionSid") :> transcriptionSid)
               @@ (K("SequenceId") :> sequenceId)
               @@ (K("Timestamp") :> timestamp)
               @@ (K("Track") :> track)
  IN  [k \in { key \in DOMAIN all : all[key] # NULL } |-> all[k]]

Payloads ==
  { Payload(text, segmentSid, transcriptionSid, sequenceId, timestamp, track) :
      text \in { V("hi"), V("Hi") },
      segmentSid \in { NULL, V("S1"), V("S2") },
      transcriptionSid \in { NULL, V("TR1") },
      sequenceId \in { NULL, V("one") },
      timestamp \in { NULL, V("epochMs") },
      track \in { NULL, V("inbound") } }

ParseInputs == [kind : { "parse" }, first : Payloads, retry : Payloads]

\* A delivery whose TranscriptionData carries a sequence number, in one of two
\* transcription sessions, with or without a Timestamp field.
HintPayloads ==
  LET Body(transcriptionSid, timestamp, data) ==
        LET all == (K("CallSid") :> V("CA1")) @@ (K("TranscriptionText") :> V("hi"))
                     @@ (K("TranscriptionSid") :> transcriptionSid)
                     @@ (K("Timestamp") :> timestamp)
                     @@ (K("TranscriptionData") :> data)
        IN  [k \in { key \in DOMAIN all : all[key] # NULL } |-> all[k]]
  IN  { Body(transcriptionSid, timestamp, data) :
          transcriptionSid \in { V("TR1"), V("TR2") },
          timestamp \in { NULL, V("epochMs") },
          data \in { V("docSequence"), V("docText") } }

\* The same utterance in two such deliveries.
RepeatInputs == [kind : { "parse" }, first : HintPayloads, retry : HintPayloads]

\* One delivery for call CA1 with or without a transcript text, a Track hint,
\* an IsFinal field, a TranscriptionData field and a TranscriptionEvent field.
EventInputs ==
  LET Body(text, track, isFinal, data, eventName) ==
        LET all == (K("CallSid") :> V("CA1")) @@ (K("CallStatus") :> V("inProgress"))
                     @@ (K("TranscriptionText") :> text) @@ (K("Track") :> track)
                     @@ (K("IsFinal") :> isFinal) @@ (K("TranscriptionData") :> data)
                     @@ (K("TranscriptionEvent") :> eventName)
        IN  [k \in { key \in DOMAIN all : all[key] # NULL } |-> all[k]]
      Documents(names) == { V(name) : name \in names }
  IN  [kind : { "event" },
       body : { Body(text, track, isFinal, data, eventName) :
                  text \in { NULL, V("Hi") },
                  track \in { NULL } \cup Documents({ "inbound", "outbound", "inboundAgent",
                                                      "customerAgent", "mono" }),
                  isFinal \in { NULL } \cup Documents({ "true", "false", "maybe" }),
                  data \in { NULL } \cup Documents({ "docFinalTrue", "docFinalFalse",
                      "docFinalString", "docSegment", "docText", "docBroken", "docArray",
                      "docString", "docNull", "docNumber" }),
                  eventName \in { NULL } \cup Documents({ "content", "stopped" }) }]

InitParse ==
  /\ InitCommon
  /\ IdlePage
  /\ env = ProductionEnv
  /\ pool = {}
  /\ reqLeft = 0
  /\ IdleSig
  /\ IdleMerge
  /\ parseIn \in ParseInputs \cup EventInputs \cup RepeatInputs
  /\ parseOut = << >>

\* The first delivery is parsed.
ParseFirst ==
  /\ parseIn.kind = "parse"
  /\ parseOut = << >>
  /\ parseOut' = << parseTwilioWebhookEvent(parseIn.first, NULL, now).transcript >>
  /\ UNCHANGED << env, pool, now, reqLeft, failLeft, sessions, chunks, adviceState,
                  h, g, sigIn, sigOut, parseIn, mergeIn, mergeOut, pageVars >>

\* The provider delivers again and the retry is parsed.
ParseRetry ==
  /\ parseIn.kind = "parse"
  /\ Len(parseOut) = 1
  /\ parseOut' = Append(parseOut, parseTwilioWebhookEvent(parseIn.retry, NULL, now).transcript)
  /\ UNCHANGED << env, pool, now, reqLeft, failLeft, sessions, chunks, adviceState,
                  h, g, sigIn, sigOut, parseIn, mergeIn, mergeOut, pageVars >>

\* Time passes between the delivery and its retry.
ParseTick ==
  /\ parseIn.kind = "parse"
  /\ Len(parseOut) = 1
  /\ now < StartNow + MaxTicks * TickMs
  /\ now' = now + TickMs
  /\ UNCHANGED << env, pool, reqLeft, failLeft, sessions, chunks, adviceState, h, g, fnVars, pageVars >>

\* The delivery is parsed; the whole event is kept.
ParseEvent ==
  /\ parseIn.kind = "event"
  /\ parseOut = << >>
  /\ parseOut' = << parseTwilioWebhookEvent(parseIn.body, NULL, now) >>
  /\ UNCHANGED << env, pool, now, reqLeft, failLeft, sessions, chunks, adviceState,
                  h, g, sigIn, sigOut, parseIn, mergeIn, mergeOut, pageVars >>

NextParse == ParseFirst \/ ParseTick \/ ParseRetry \/ ParseEvent

SpecParse == InitParse /\ [][NextParse]_vars

(***************************************************************************)
(* The merge engine taken alone                                            *)
(***************************************************************************)

\* The words of the texts: a word, the same word capitalized and followed
\* by punctuation, and another word.
Vocabulary == { << "a" >>, << "A", "," >>, << "b" >> }

\* The texts of n words, single-spaced.
RECURSIVE TextsOf(_)
TextsOf(n) ==
  IF n = 0 THEN { << >> }
  ELSE IF n = 1 THEN Vocabulary
  ELSE { w \o << " " >> \o rest : w \in Vocabulary, rest \in TextsOf(n - 1) }

\* Utterances of a call, and texts that are not whitespace-normalized.
X ==
  [theQuickBrown |-> << "t", "h", "e", " ", "q", "u", "i", "c", "k", " ", "b", "r", "o", "w", "n" >>,
   brownFoxJumps |-> << "b", "r", "o", "w", "n", " ", "f", "o", "x", " ", "j", "u", "m", "p", "s" >>,
   accountNumber |-> << "I", " ", "n", "e", "e", "d", " ", "y", "o", "u", "r", " ", "a", "c", "c", "o", "u", "n", "t", " ", "n", "u", "m", "b", "e", "r" >>,
   helpPlease |-> << "I", " ", "n", "e", "e", "d", " ", "y", "o", "u", "r", " ", "h", "e", "l", "p", " ", "p", "l", "e", "a", "s", "e" >>,
   needHelp |-> << "I", " ", "n", "e", "e", "d", " ", "h", "e", "l", "p" >>,
   wantHelp |-> << "I", " ", "w", "a", "n", "t", " ", "y", "o", "u", "r", " ", "h", "e", "l", "p", " ", "p", "l", "e", "a", "s", "e" >>,
   spaced |-> << " ", "a", " ", " ", "b" >>,
   tabbed |-> << "A", "\t", "b", " " >>,
   blank |-> << " ", " " >>,
   overTheDog |-> << "t", "h", "e", " ", "f", "o", "x", " ", "j", "u", "m", "p", "s", " ", "o", "v", "e", "r", " ", "t", "h", "e", " ", "d", "o", "g" >>]

TextInputs == UNION { TextsOf(n) : n \in 0..MaxWords } \cup { X[k] : k \in DOMAIN X }

MergeInputs ==
  [kind : { "merge" }, previous : TextInputs, next : TextInputs, isFinal : BOOLEAN]

InitMerge ==
  /\ InitCommon
  /\ IdlePage
  /\ env = ProductionEnv
  /\ pool = {}
  /\ reqLeft = 0
  /\ IdleSig
  /\ IdleParse
  /\ mergeIn \in MergeInputs
  /\ mergeOut = NoMergeOut

\* The two implementations are applied to the same fragments.
Merge ==
  /\ mergeIn.kind = "merge"
  /\ ~mergeOut.done
  /\ mergeOut' =
       [done |-> TRUE,
        engine |-> mergeIncrementalTranscriptText(mergeIn.previous, mergeIn.next,
                                                  mergeIn.isFinal),
        lib |-> mergeIncrementalTranscriptTextLib(mergeIn.previous, mergeIn.next,
                                                  mergeIn.isFinal),
        again |-> << >>]
  /\ UNCHANGED << env, pool, now, reqLeft, failLeft, sessions, chunks, adviceState,
                  h, g, sigIn, sigOut, parseIn, parseOut, mergeIn, pageVars >>

\* The same fragment arrives again and is applied to the reconciled texts.
MergeAgain ==
  /\ mergeIn.kind = "merge"
  /\ mergeOut.done
  /\ mergeOut.again = << >>
  /\ mergeOut' =
       [mergeOut EXCEPT !.again =
          << mergeIncrementalTranscriptText(mergeOut.engine, mergeIn.next, mergeIn.isFinal),
             mergeIncrementalTranscriptTextLib(mergeOut.lib, mergeIn.next, mergeIn.isFinal) >>]
  /\ UNCHANGED << env, pool, now, reqLeft, failLeft, sessions, chunks, adviceState,
                  h, g, sigIn, sigOut, parseIn, parseOut, mergeIn, pageVars >>

NextMerge == Merge \/ MergeAgain

SpecMerge == InitMerge /\ [][NextMerge]_vars

(***************************************************************************)
(* The end-to-end scenario: three deliveries, then the panel               *)
(***************************************************************************)

\* A partial and a final of one segment of the other party, then a segment
\* of a second transcription; each delivery arrives gap milliseconds after
\* the one before and carries no Timestamp field, so that its timestamp is
\* the time of its arrival.
ScenarioInputs ==
  LET Body(text, sequenceId, track, isFinal) ==
        (K("CallSid") :> V("CA1")) @@ (K("TranscriptionSid") :> V("TR1"))
          @@ (K("SequenceId") :> sequenceId) @@ (K("TranscriptionEvent") :> V("content"))
          @@ (K("TranscriptionText") :> text) @@ (K("Track") :> track)
          @@ (K("IsFinal") :> isFinal)
      Of(finalText, trackS, gapF, gapS) ==
        [kind |-> "scenario",
         deliveries |->
           << [gap |-> 0,
               body |-> Body(V("giftCards"), V("one"), V("outbound"), V("false"))],
              [gap |-> gapF,
               body |-> Body(finalText, V("one"), V("outbound"), V("true"))],
              [gap |-> gapS,
               body |-> Body(V("iWillCall"), V("two"), trackS, V("true"))] >>]
  IN  { Of(finalText, trackS, gapF, gapS) :
          finalText \in { V("giftCardsNow"), V("giftCardsNowStop") },
          trackS \in { V("inbound"), V("outbound") },
          gapF \in { 0, 250, UTTERANCE_GAP_MS, UTTERANCE_GAP_MS + 1 },
          gapS \in { 0, 250, UTTERANCE_GAP_MS + 1 } }

InitScenario ==
  /\ InitCommon
  /\ IdlePage
  /\ env = ProductionEnv
  /\ pool = {}
  /\ IdleSig
  /\ IdleMerge
  /\ parseIn \in ScenarioInputs
  /\ parseOut = << >>
  /\ reqLeft = Len(parseIn.deliveries)

\* POST for the next delivery, from parseTwilioWebhookEvent to
\* appendTranscriptChunk, with no storage call failing: parseOut holds the
\* rows of the call, in the order of their insertion.
Deliver ==
  /\ parseIn.kind = "scenario"
  /\ reqLeft > 0
  /\ \E d \in { parseIn.deliveries[Len(parseIn.deliveries) - reqLeft + 1] } :
       \E event \in { parseTwilioWebhookEvent(d.body, NULL, now + d.gap) } :
         /\ now' = now + d.gap
         /\ chunks' = appendTranscriptChunk(chunks, event.callSid,
                                            event.transcript.sourceEventId)
         /\ parseOut' = IF chunks' = chunks THEN parseOut
                        ELSE Append(parseOut, event.transcript)
  /\ reqLeft' = reqLeft - 1
  /\ UNCHANGED << env, pool, failLeft, sessions, adviceState, h, g, sigIn, sigOut,
                  parseIn, mergeIn, mergeOut, pageVars >>

\* The panel loads the rows and displays them.  A line's id is the number of
\* its row, and its timestamp the row's: the clock values stand for epoch
\* milliseconds above 10^12, which parseTimestampMs returns as they are.
\* The ids being distinct, mergeTranscriptLine only sorts the lines, as
\* compactTranscriptForDisplay does again.
Display ==
  /\ parseIn.kind = "scenario"
  /\ reqLeft = 0
  /\ ~mergeOut.done
  /\ mergeOut' =
       [done |-> TRUE, engine |-> << >>,
        lib |-> compactTranscriptForDisplay(
                  [i \in DOMAIN parseOut |->
                     [id |-> i, speaker |-> parseOut[i].speaker,
                      text |-> normalizeTranscriptText(parseOut[i].text),
                      timestamp |-> Number(parseOut[i].timestamp),
                      isFinal |-> parseOut[i].isFinal]]),
        again |-> << >>]
  /\ UNCHANGED << env, pool, now, reqLeft, failLeft, sessions, chunks, adviceState,
                  h, g, sigIn, sigOut, parseIn, parseOut, mergeIn, pageVars >>

NextScenario == Deliver \/ Display

SpecScenario == InitScenario /\ [][NextScenario]_vars

TypeOK == \A r \in Slots : h[r].resp \in { 0, 200, 400, 401, 500 }

(***************************************************************************)
(* The phone route PUT /api/tenant/phone (lib/phone, tenant/phone/route)   *)
(***************************************************************************)

\* raw.replace(/[\s\-().]/g, '')
StripPhone(raw) ==
  SelectSeq(raw, LAMBDA ch : ch \notin { " ", "\t", "-", "(", ")", "." })

\* /^\+\d{10,15}$/.test(phone)
isValidE164(phone) ==
  /\ Len(phone) >= 11
  /\ Len(phone) <= 16
  /\ phone[1] = "+"
  /\ IsDigits(SubSeq(phone, 2, Len(phone)))

\* normalizePhone: ten digits are a US number; otherwise + and 10 to 15 digits.
normalizePhone(raw) ==
  LET stripped == StripPhone(raw)
  IN  IF Len(stripped) = 10 /\ IsDigits(stripped)
        THEN [ok |-> TRUE, number |-> << "+", "1" >> \o stripped]
      ELSE IF isValidE164(stripped) THEN [ok |-> TRUE, number |-> stripped]
      ELSE [ok |-> FALSE, number |-> NULL]

\* PUT requests in a behaviour of SpecPhone.
MaxPuts == 3

PutSlots == { 1, 2 }

\* process.env.TENANT_ADMIN_OVERRIDE_TOKEN, and a header value that is not it.
OverrideToken == << "t", "o", "k" >>
WrongToken == << "t", "o", "c" >>

\* The phoneNumber of a request body: one number written in three ways,
\* another number, and a text that is no number.
PhoneNumbers ==
  { << "4", "1", "5", "5", "5", "5", "2", "6", "7", "1" >>,
    << "+", "1", "4", "1", "5", "5", "5", "5", "2", "6", "7", "1" >>,
    << "(", "4", "1", "5", ")", " ", "5", "5", "5", "-", "2", "6", "7", "1" >>,
    << "+", "1", "4", "1", "5", "5", "5", "5", "0", "0", "0", "0" >>,
    << "5", "5", "5" >> }

\* The x-admin-override-token header of a request, NULL when absent.
OverrideHeaders == { NULL, OverrideToken, WrongToken }

IdlePut ==
  [pc |-> "idle", number |-> NULL, override |-> FALSE, tenant |-> NULL,
   err |-> FALSE, resp |-> 0]

\* The phone route alone: the tenant has no phone number yet.
InitPhone ==
  /\ InitCommon
  /\ env = ProductionEnv
  /\ pool = {}
  /\ reqLeft = MaxPuts
  /\ IdleSig
  /\ IdleParse
  /\ IdleMerge
  /\ tenants = NULL
  /\ puts = [r \in PutSlots |-> IdlePut]
  /\ panel = << >>
  /\ effects = << >>
  /\ changes = << >>
  /\ display = << >>

\* A step of PUT handler r.
UpdatePut(r, pr, phone, fl, left) ==
  /\ puts' = [puts EXCEPT ![r] = pr]
  /\ tenants' = phone
  /\ failLeft' = fl
  /\ reqLeft' = left
  /\ UNCHANGED << env, pool, now, sessions, chunks, adviceState, h, g, fnVars,
                  panel, effects, changes, display >>

\* PUT up to the select: the body is validated, the number normalised, and
\* tenants.phone_number is read.  Fewer than the 20 requests of a rate-limit
\* window arrive, so takeRateLimit grants each of them.
PutReceive(r) ==
  /\ puts[r].pc \in { "idle", "done" }
  /\ reqLeft > 0
  /\ \E raw \in PhoneNumbers, header \in OverrideHeaders, fails \in Fails :
       LET normalized == normalizePhone(raw)
       IN  IF ~normalized.ok \/ ~isValidE164(normalized.number)
             THEN UpdatePut(r, [IdlePut EXCEPT !.pc = "done", !.resp = 400],
                            tenants, failLeft, reqLeft - 1)
           ELSE UpdatePut(r,
                  [pc |-> "select", number |-> normalized.number,
                   override |-> header = OverrideToken,
                   tenant |-> tenants, err |-> fails, resp |-> 0],
                  tenants, Charge(fails), reqLeft - 1)

\* The select returns: 404, ok for the stored number, 409 for another number
\* without the override token; otherwise the update is sent.
PutSelectReturn(r) ==
  /\ puts[r].pc = "select"
  /\ LET pr == puts[r]
     IN  IF pr.err
           THEN UpdatePut(r, [pr EXCEPT !.pc = "done", !.resp = 404], tenants, failLeft, reqLeft)
         ELSE IF pr.tenant = pr.number
           THEN UpdatePut(r, [pr EXCEPT !.pc = "done", !.resp = 200], tenants, failLeft, reqLeft)
         ELSE IF pr.tenant # NULL /\ ~pr.override
           THEN UpdatePut(r, [pr EXCEPT !.pc = "done", !.resp = 409], tenants, failLeft, reqLeft)
         ELSE \E fails \in Fails :
                UpdatePut(r, [pr EXCEPT !.pc = "update", !.err = fails],
                          IF fails THEN tenants ELSE pr.number, Charge(fails), reqLeft)

\* The update returns: 500 on an error, else ok.
PutUpdateReturn(r) ==
  /\ puts[r].pc = "update"
  /\ UpdatePut(r, [puts[r] EXCEPT !.pc = "done", !.resp = IF puts[r].err THEN 500 ELSE 200],
               tenants, failLeft, reqLeft)

NextPhone ==
  \/ \E r \in PutSlots : PutReceive(r)
  \/ \E r \in PutSlots : PutSelectReturn(r)
  \/ \E r \in PutSlots : PutUpdateReturn(r)

SpecPhone == InitPhone /\ [][NextPhone]_vars

(***************************************************************************)
(* compactTranscriptForDisplay taken alone, one loop iteration at a time   *)
(***************************************************************************)

\* Lines in the short lists of a behaviour of SpecCompact.
MaxLines == 2

\* The texts of the lines: no sentence boundary, a sentence boundary, blank.
LineTexts == { << "h", "i" >>, << "o", "k", "." >>, << " " >> }

\* The timestamps of the lines, less and more than UTTERANCE_GAP_MS apart.
LineTimes == { 0, 1000, 2500 }

\* What a line says: who, what, when, and whether it is final.
LineValues ==
  [speaker : { Speaker.caller, Speaker.other }, text : LineTexts,
   timestamp : LineTimes, isFinal : BOOLEAN]

\* The lines that say f; the id of a line is its row number.
LinesOf(f) ==
  [i \in DOMAIN f |-> [id |-> i, speaker |-> f[i].speaker, text |-> f[i].text,
                       timestamp |-> f[i].timestamp, isFinal |-> f[i].isFinal]]

\* More lines than the panel displays: the speakers alternate, then one
\* speaker says a partial and a final within the utterance gap.
LongList ==
  [i \in 1..(MAX_TRANSCRIPT_LINES + 2) |->
     [id |-> i,
      speaker |-> IF i > MAX_TRANSCRIPT_LINES \/ i % 2 = 0 THEN Speaker.caller
                  ELSE Speaker.other,
      text |-> << "h", "i" >>,
      timestamp |-> i,
      isFinal |-> i # MAX_TRANSCRIPT_LINES + 1]]

\* compactTranscriptForDisplay is about to run on lines.
StartCompact(lines) ==
  [pc |-> "start", lines |-> lines, ordered |-> << >>, compacted |-> << >>,
   merged |-> << >>]

\* Up to MaxLines lines in any order, or the long list. merged: for each
\* entry of compacted, the ids of the lines it was made of.
InitCompact ==
  /\ InitCommon
  /\ env = ProductionEnv
  /\ pool = {}
  /\ reqLeft = 0
  /\ IdleSig
  /\ IdleParse
  /\ IdleMerge
  /\ tenants = NULL
  /\ puts = << >>
  /\ panel = << >>
  /\ effects = << >>
  /\ changes = << >>
  /\ \/ \E n \in 0..MaxLines : \E f \in [1..n -> LineValues] :
          display = StartCompact(LinesOf(f))
     \/ display = StartCompact(LongList)

\* if (lines.length === 0) return []; const ordered = lines.slice().sort(...)
CompactSort ==
  /\ display.pc = "start"
  /\ display' = IF display.lines = << >> THEN [display EXCEPT !.pc = "done"]
                ELSE [display EXCEPT !.pc = "loop", !.ordered = OrderedLines(display.lines)]
  /\ UNCHANGED << env, pool, now, reqLeft, failLeft, sessions, chunks, adviceState,
                  h, g, fnVars, tenants, puts, panel, effects, changes >>

\* One iteration of the loop: the entry is skipped, pushed, or merged into
\* the last entry.
CompactEntry ==
  /\ display.pc = "loop"
  /\ display.ordered # << >>
  /\ LET entry == Head(display.ordered)
         compacted == CompactStep(display.compacted, entry)
         merged ==
           IF compacted = display.compacted /\ normalizeTranscriptText(entry.text) = << >>
             THEN display.merged
           ELSE IF Len(compacted) > Len(display.compacted)
             THEN Append(display.merged, { entry.id })
           ELSE [display.merged EXCEPT ![Len(display.merged)] = @ \cup { entry.id }]
     IN  display' = [display EXCEPT !.ordered = Tail(@), !.compacted = compacted,
                                    !.merged = merged]
  /\ UNCHANGED << env, pool, now, reqLeft, failLeft, sessions, chunks, adviceState,
                  h, g, fnVars, tenants, puts, panel, effects, changes >>

\* The loop is over: at most the last MAX_TRANSCRIPT_LINES entries are returned.
CompactReturn ==
  /\ display.pc = "loop"
  /\ display.ordered = << >>
  /\ display' = [display EXCEPT !.pc = "done", !.compacted = LastLines(@),
                                !.merged = LastLines(@)]
  /\ UNCHANGED << env, pool, now, reqLeft, failLeft, sessions, chunks, adviceState,
                  h, g, fnVars, tenants, puts, panel, effects, changes >>

NextCompact == CompactSort \/ CompactEntry \/ CompactReturn

SpecCompact == InitCompact /\ [][NextCompact]_vars

(***************************************************************************)
(* The live panel (noir-frame): the monitor session, polling and realtime  *)
(***************************************************************************)

\* The status column of a live_calls row, as the panel receives it.
StatusText(status) ==
  CASE status = "queued" -> << "q", "u", "e", "u", "e", "d" >>
    [] status = "ringing" -> << "r", "i", "n", "g", "i", "n", "g" >>
    [] status = "live" -> << "l", "i", "v", "e" >>
    [] status = "ended" -> << "e", "n", "d", "e", "d" >>
    [] status = "failed" -> << "f", "a", "i", "l", "e", "d" >>

\* isTerminalStatus of the panel, by substring.
isTerminalStatusPanel(status) ==
  LET normalized == toLowerCase(status)
  IN  \/ includes(normalized, << "e", "n", "d" >>)
      \/ includes(normalized, << "c", "o", "m", "p", "l", "e", "t", "e" >>)
      \/ includes(normalized, << "c", "a", "n", "c", "e", "l" >>)
      \/ includes(normalized, << "f", "a", "i", "l" >>)
      \/ includes(normalized, << "e", "r", "r", "o", "r" >>)

\* The tenant of the panel.
PanelSlug == V("abc")

\* The state of the component after resetSession; start is the fetch of
\* handleStartMonitor, "sent" while it is in flight.  caseNote and error are
\* "none" for the empty string.
NoPanel ==
  [panelState |-> "idle", callId |-> NULL, callStatus |-> StatusText("queued"),
   analyzing |-> FALSE, caseNote |-> "none", error |-> "none", advice |-> "default",
   rawTranscript |-> {}, start |-> "none"]

\* No poll of an effect is in flight (inFlight = false).
NoPoll == [pc |-> "none", row |-> NoSession, transcript |-> << >>]

\* The effect of a call as it is mounted: void pollLiveSession() was called
\* and the channel is being subscribed.
NewEffect(callId) ==
  [callId |-> callId, cancelled |-> FALSE, poll |-> [NoPoll EXCEPT !.pc = "sent"],
   channel |-> "joining"]

\* The cleanup of the effect: cancelled = true; void supabase.removeChannel(channel).
\* A channel that was subscribed leaves; one that was not delivers nothing.
Cleanup(instances) ==
  [e \in DOMAIN instances |->
     IF instances[e].cancelled THEN instances[e]
     ELSE [instances[e] EXCEPT
             !.cancelled = TRUE,
             !.channel = IF @ = "subscribed" THEN "leaving" ELSE "removed"]]

\* React commits callId: the effect of the old callId is cleaned up and the
\* effect of the new one, if there is one, is mounted.
Commit(instances, oldCallId, newCallId) ==
  IF newCallId = oldCallId THEN instances
  ELSE IF newCallId = NULL THEN Cleanup(instances)
  ELSE Append(Cleanup(instances), NewEffect(newCallId))

\* The transcript lines of the stored chunks of a call.
LinesOfCall(callId, rows) == { [call |-> callId, id |-> rows[i]] : i \in DOMAIN rows }

\* applySessionPayload(data), data being the row and the chunks the route read.
applySessionPayload(p, callId, row, rows) ==
  [p EXCEPT !.callStatus = StatusText(row.status),
            !.panelState = IF isTerminalStatusPanel(StatusText(row.status)) THEN "ended"
                           ELSE "live",
            !.analyzing = row.analyzing,
            !.advice = row.advice,
            !.rawTranscript = LinesOfCall(callId, rows),
            !.caseNote = IF row.lastError # "none" THEN row.lastError ELSE @]

\* applyLiveCallRow(row)
applyLiveCallRow(p, row) ==
  [p EXCEPT !.callStatus = StatusText(row.status),
            !.panelState = IF isTerminalStatusPanel(StatusText(row.status)) THEN "ended"
                           ELSE "live",
            !.analyzing = row.analyzing,
            !.advice = row.advice,
            !.caseNote = IF row.lastError # "none" THEN row.lastError ELSE @]

\* applyTranscriptRow(row): the ids of the rows being distinct,
\* mergeTranscriptLine adds the line.
applyTranscriptRow(p, line) == [p EXCEPT !.rawTranscript = @ \cup { line }]

\* The component is mounted and idle; no call has a session yet, and
\* MaxDeliveries webhook deliveries will change rows.
InitPanel ==
  /\ InitCommon
  /\ env = ProductionEnv
  /\ pool = {}
  /\ reqLeft = MaxDeliveries
  /\ IdleSig
  /\ IdleParse
  /\ IdleMerge
  /\ tenants = NULL
  /\ puts = << >>
  /\ display = << >>
  /\ panel = NoPanel
  /\ effects = << >>
  /\ changes = << >>

\* A step of the panel or of the server behind it.
UpdatePanel(p, instances, queue, rows, chunkRows, left) ==
  /\ panel' = p
  /\ reqLeft' = left
  /\ effects' = instances
  /\ changes' = queue
  /\ sessions' = rows
  /\ chunks' = chunkRows
  /\ UNCHANGED << env, pool, now, failLeft, adviceState, h, g, fnVars,
                  tenants, puts, display >>

\* The call the next monitor session gets from POST /api/call.
NextCall == IF ~sessions[V("CA1")].exists THEN V("CA1") ELSE V("CA2")

\* handleStartMonitor up to the fetch of POST /api/call.
StartMonitor ==
  /\ panel.panelState \in { "idle", "error" }
  /\ panel.start = "none"
  /\ \E c \in CallSids : ~sessions[c].exists
  /\ UpdatePanel([panel EXCEPT !.panelState = "starting", !.error = "none",
                               !.caseNote = "calling", !.start = "sent"],
                 effects, changes, sessions, chunks, reqLeft)

\* The fetch returns the call that was placed: the session of the call
\* exists, and the component takes its callId.
StartReturn ==
  /\ panel.start = "sent"
  /\ UpdatePanel([panel EXCEPT !.callId = NextCall, !.callStatus = StatusText("queued"),
                               !.panelState = "live", !.caseNote = "answer",
                               !.start = "none"],
                 Commit(effects, panel.callId, NextCall), changes,
                 upsertLiveCallSession(sessions, NextCall, PanelSlug, NULL), chunks, reqLeft)

\* The fetch fails, or returns an error.
StartFail ==
  /\ panel.start = "sent"
  /\ UpdatePanel([panel EXCEPT !.panelState = "error", !.error = "unable",
                               !.start = "none"],
                 effects, changes, sessions, chunks, reqLeft)

\* resetSession, the New session button of the live and the ended panel.
resetSession ==
  /\ panel.panelState \in { "live", "ended" }
  /\ UpdatePanel([NoPanel EXCEPT !.start = panel.start],
                 Commit(effects, panel.callId, NULL), changes, sessions, chunks, reqLeft)

\* pollLiveSession up to the fetch, from the timer or a visibility change:
\* if (cancelled || inFlight) return; inFlight = true.
PollStart(e) ==
  /\ ~effects[e].cancelled
  /\ effects[e].poll.pc = "none"
  /\ UpdatePanel(panel, [effects EXCEPT ![e].poll.pc = "sent"], changes, sessions, chunks, reqLeft)

\* GET /api/call/live reads the session and the transcript of the call.
PollServe(e) ==
  /\ effects[e].poll.pc = "sent"
  /\ UpdatePanel(panel,
                 [effects EXCEPT ![e].poll =
                    [pc |-> "read", row |-> sessions[effects[e].callId],
                     transcript |-> chunks[effects[e].callId]]],
                 changes, sessions, chunks, reqLeft)

\* The response arrives: nothing if cancelled, the error panel on 404, else
\* applySessionPayload(data); finally inFlight = false.
PollReturn(e) ==
  /\ effects[e].poll.pc = "read"
  /\ LET fx == effects[e]
     IN  UpdatePanel(
           IF fx.cancelled THEN panel
           ELSE IF ~fx.poll.row.exists
             THEN [panel EXCEPT !.panelState = "error", !.error = "expired"]
           ELSE applySessionPayload(panel, fx.callId, fx.poll.row, fx.poll.transcript),
           [effects EXCEPT ![e].poll = NoPoll], changes, sessions, chunks, reqLeft)

\* The fetch throws: the reconnect note unless cancelled; inFlight = false.
PollThrow(e) ==
  /\ effects[e].poll.pc \in { "sent", "read" }
  /\ UpdatePanel(IF effects[e].cancelled THEN panel
                 ELSE [panel EXCEPT !.caseNote = "reconnect"],
                 [effects EXCEPT ![e].poll = NoPoll], changes, sessions, chunks, reqLeft)

\* The subscribe callback with SUBSCRIBED clears the reconnect note.
Subscribed(e) ==
  /\ effects[e].channel = "joining"
  /\ UpdatePanel([panel EXCEPT !.caseNote = IF @ = "reconnect" THEN "none" ELSE @],
                 [effects EXCEPT ![e].channel = "subscribed"], changes, sessions, chunks, reqLeft)

\* The changes of a channel arrive in order.
FirstChange(e) == CHOOSE i \in DOMAIN changes :
                    changes[i].e = e /\ \A j \in 1..(i - 1) : changes[j].e # e

Without(queue, i) == SubSeq(queue, 1, i - 1) \o SubSeq(queue, i + 1, Len(queue))

\* A postgres_changes callback of the channel of effect e runs: the channel
\* is subscribed, or removeChannel was called and has not completed.
RowDeliver(e) ==
  /\ effects[e].channel \in { "subscribed", "leaving" }
  /\ \E i \in DOMAIN changes : changes[i].e = e
  /\ LET change == changes[FirstChange(e)]
     IN  UpdatePanel(IF change.table = "live_calls" THEN applyLiveCallRow(panel, change.row)
                     ELSE applyTranscriptRow(panel, change.row),
                     effects, Without(changes, FirstChange(e)), sessions, chunks, reqLeft)

\* removeChannel completes: the channel delivers nothing more.
ChannelRemoved(e) ==
  /\ effects[e].channel = "leaving"
  /\ UpdatePanel(panel, [effects EXCEPT ![e].channel = "removed"],
                 SelectSeq(changes, LAMBDA change : change.e # e), sessions, chunks, reqLeft)

\* The change of a row of call c, for the channel that listens to the call.
Emit(c, table, row) ==
  IF \E e \in DOMAIN effects :
       effects[e].callId = c /\ effects[e].channel \in { "subscribed", "leaving" }
    THEN Append(changes,
                [e |-> CHOOSE e \in DOMAIN effects :
                         effects[e].callId = c
                           /\ effects[e].channel \in { "subscribed", "leaving" },
                 table |-> table, row |-> row])
  ELSE changes

\* A webhook delivery stores a later status of call c: answered, completed.
ServerStatus(c) ==
  /\ reqLeft > 0
  /\ sessions[c].exists
  /\ \E status \in { "live", "ended" } :
       /\ sessions[c].status = "queued" \/ (sessions[c].status = "live" /\ status = "ended")
       /\ LET rows == setLiveCallStatus(sessions, c, status, "none")
          IN  UpdatePanel(panel, effects, Emit(c, "live_calls", rows[c]), rows, chunks,
                          reqLeft - 1)

\* A webhook delivery stores a transcript chunk of call c.
ServerChunk(c) ==
  /\ reqLeft > 0
  /\ sessions[c].exists
  /\ chunks[c] = << >>
  /\ UpdatePanel(panel, effects,
                 Emit(c, "live_transcript_chunks", [call |-> c, id |-> V("one")]),
                 sessions, appendTranscriptChunk(chunks, c, V("one")), reqLeft - 1)

NextPanel ==
  \/ StartMonitor
  \/ StartReturn
  \/ StartFail
  \/ resetSession
  \/ \E e \in DOMAIN effects : PollStart(e)
  \/ \E e \in DOMAIN effects : PollServe(e)
  \/ \E e \in DOMAIN effects : PollReturn(e)
  \/ \E e \in DOMAIN effects : PollThrow(e)
  \/ \E e \in DOMAIN effects : Subscribed(e)
  \/ \E e \in DOMAIN effects : RowDeliver(e)
  \/ \E e \in DOMAIN effects : ChannelRemoved(e)
  \/ \E c \in CallSids : ServerStatus(c)
  \/ \E c \in CallSids : ServerChunk(c)

SpecPanel == InitPanel /\ [][NextPanel]_vars

(***************************************************************************)
(* Claims                                                                  *)
(***************************************************************************)

\* The awaits of the scheduler loop in runAdviceForCall.
LoopAwaits ==
  { "summary", "chunks", "analyzing", "generate", "setAdvice", "setAdviceFallback" }

NoFailureYet == failLeft = MaxFailures

Quiescent == reqLeft = 0 /\ \A r \in Slots : h[r].pc \in { "idle", "done" }

\* C1: for every call, at most one generateLiveAdvice invocation is in
\* progress at any time, whatever the interleaving of triggers.
C1_OneGenerationPerCall ==
  \A c \in CallSids :
    Cardinality({ r \in Slots : h[r].pc = "generate" /\ Event(h[r]).callSid = c }) <= 1

\* A trigger arrived while a generation was in flight and was coalesced.
C1_Witness ==
  \E c \in CallSids : Generating(c) /\ adviceState[c].pending /\ g[c].coalesced >= 1

\* C2: a trigger that arrives while a run is in flight is not lost: when no
\* storage or generation call has failed, the run does not clear running
\* before it has invoked generateLiveAdvice on a transcript window fetched
\* after the trigger arrived.
C2_TriggerNotLost ==
  NoFailureYet =>
    \A c \in CallSids : ~adviceState[c].running => g[c].owed = "none"

\* C3: when all the triggers coalesced into a run arrived during its first
\* generateLiveAdvice invocation, the run makes at most 2 invocations.
C3_AtMostOneFollowUp ==
  \A c \in CallSids : ~g[c].lateTrigger => g[c].runGens <= 2

\* Two triggers arrived during the first generation and the follow-up
\* generation has been invoked.
C3_Witness ==
  \E c \in CallSids :
    g[c].runGens = 2 /\ g[c].coalesced = 2 /\ ~g[c].lateTrigger /\ Generating(c)

\* C4: once deliveries have stopped and every handler has finished, every
\* chunk whose trigger was issued has been in the window of a
\* generateLiveAdvice invocation (when no storage or generation call failed).
C4_LatestDataAnalyzed ==
  (Quiescent /\ NoFailureYet) => \A c \in CallSids : g[c].unanalyzed = {}

\* C5: a handler never waits in the scheduler loop before it has produced
\* its response.
C5_FireAndForget ==
  \A r \in Slots : h[r].pc \in LoopAwaits => h[r].resp # 0

\* C6 as stated: with validation not skipped, a request whose signature is
\* missing or matches no URL candidate is answered 401 and the handler makes
\* no storage call and no trigger.
C6_Rejected401 ==
  \A r \in Slots :
    (~(env.skipVar = "1" \/ env.nodeEnv = "test") /\ h[r].sig \in { "missing", "invalid" })
      => (h[r].pc = "done" /\ h[r].resp = 401 /\ ~h[r].parsed /\ ~h[r].acted)

\* C6 as amended: such a request is answered 401 when the Twilio credentials
\* are configured and 500 when they are missing, and in both cases the
\* handler makes no storage call and no trigger.
C6_Rejected ==
  \A r \in Slots :
    (~(env.skipVar = "1" \/ env.nodeEnv = "test") /\ h[r].sig \in { "missing", "invalid" })
      => /\ h[r].pc = "done"
         /\ h[r].resp = IF env.hasConfig THEN 401 ELSE 500
         /\ ~h[r].parsed
         /\ ~h[r].acted

\* A request signed with another token was answered 401.
C6_Witness ==
  \E r \in Slots :
    /\ ~(env.skipVar = "1" \/ env.nodeEnv = "test")
    /\ h[r].sig = "invalid"
    /\ h[r].resp = 401

\* C7: a signature computed over (url, params) verifies for no other URL and
\* no other parameter map.
C7_TamperedFails ==
  (sigIn.kind = "tamper" /\ sigOut = "true")
    => (sigIn.url2 = sigIn.url /\ sigIn.params2 = sigIn.params)

\* The URL the provider called when the proxy forwards host and scheme.
ForwardedUrlString(in) ==
  in.headers.xForwardedProto \o << ":", "/", "/" >> \o in.headers.xForwardedHost.host
    \o in.url.path

PlainForwarding(in) ==
  /\ in.url.scheme # NULL
  /\ in.url.port = << >>
  /\ in.headers.xForwardedHost.host # NULL
  /\ in.headers.xForwardedHost.port = << >>
  /\ in.headers.xForwardedProto \in SpecialSchemes

C9_BypassOnlyByConfiguration ==
  \A r \in Slots :
    h[r].sig \in { "missing", "invalid" } =>
      \/ env.skipVar = "1"
      \/ env.nodeEnv = "test"
      \/ (~h[r].parsed /\ ~h[r].acted /\ h[r].resp \in { 401, 500 })

\* Under NODE_ENV = 'test' a request with an invalid signature made a
\* storage call.
C9_Witness ==
  \E r \in Slots :
    h[r].sig = "invalid" /\ h[r].acted /\ env.nodeEnv = "test" /\ env.skipVar = "unset"

\* A delivery and its retry have been parsed.
ParsedTwice == parseIn.kind = "parse" /\ Len(parseOut) = 2

\* C11: parsing the same webhook parameters twice, at two wall-clock times,
\* yields the same sourceEventId both times.
C11_RetryKeepsSourceEventId ==
  (ParsedTwice /\ parseIn.retry = parseIn.first)
    => parseOut[2].sourceEventId = parseOut[1].sourceEventId

\* What makes two deliveries the same logical segment: the call, the text
\* (trimmed, lower case), the speaker and the timestamp field.
LogicalSegment(params) ==
  [callSid |-> readString(params, << K("CallSid") >>),
   text |-> toLowerCase(readString(params, << K("TranscriptionText") >>)),
   track |-> readString(params, << K("Track") >>),
   timestamp |-> readString(params, << K("Timestamp") >>)]

\* C12: two deliveries of the same logical segment get the same
\* sourceEventId even when the segment sid, the transcription sid or the
\* sequence id differ between them.
C12_IdentifiersDoNotMatter ==
  (ParsedTwice /\ LogicalSegment(parseIn.retry) = LogicalSegment(parseIn.first))
    => parseOut[2].sourceEventId = parseOut[1].sourceEventId

NoRepeat(s) == \A i, j \in DOMAIN s : s[i] = s[j] => i = j

C14_TerminalAbsorbing ==
  [][ \A c \in CallSids :
        (sessions[c].exists /\ isTerminalStatus(sessions[c].status))
          => isTerminalStatus(sessions'[c].status) ]_vars

\* The handler is serving an authenticated event that carries a call sid
\* and a status and was parsed with transcript = null.
StatusOnly(hr) ==
  /\ hr.parsed
  /\ hr.pc # "done"
  /\ Event(hr).callSid # NULL
  /\ Event(hr).status # NULL
  /\ Event(hr).transcript = NoTranscript

MergeOutputs == { mergeOut.engine, mergeOut.lib }

\* C17 as stated: a merge with an empty side returns the other side as it
\* was given, whitespace included.
C17_EmptySideIsIdentity ==
  mergeOut.done =>
    \A out \in MergeOutputs :
      /\ mergeIn.previous = << >> => out = mergeIn.next
      /\ mergeIn.next = << >> => out = mergeIn.previous

\* C17 as amended: when one side is empty once its whitespace is collapsed
\* and trimmed, the merge returns the other side with its whitespace
\* collapsed and trimmed, for both values of isFinal.
C17_EmptySideNormalizes ==
  mergeOut.done =>
    \A out \in MergeOutputs :
      /\ normalizeTranscriptText(mergeIn.previous) = << >>
           => out = normalizeTranscriptText(mergeIn.next)
      /\ normalizeTranscriptText(mergeIn.next) = << >>
           => out = normalizeTranscriptText(mergeIn.previous)

\* The empty text was merged with " a  b" and the result is "a b".
C17_Witness ==
  /\ mergeOut.done
  /\ mergeIn.previous = << >>
  /\ mergeIn.next = X.spaced
  /\ MergeOutputs = { << "a", " ", "b" >> }

\* The two texts are equal up to case once their whitespace is collapsed.
EqualIgnoringCase ==
  toLowerCase(normalizeTranscriptText(mergeIn.previous))
    = toLowerCase(normalizeTranscriptText(mergeIn.next))

\* C18 as stated: when next equals previous, also when only up to case and
\* whitespace, the merge returns previous as it was given.
C18_EqualReturnsPreviousUnchanged ==
  (mergeOut.done /\ EqualIgnoringCase) =>
    \A out \in MergeOutputs : out = mergeIn.previous

\* C18 as amended: when next equals previous up to case once the whitespace
\* of both is collapsed and trimmed, the merge returns previous with its
\* whitespace collapsed and trimmed (previous itself when it is normalized),
\* for both values of isFinal.
C18_EqualReturnsPrevious ==
  (mergeOut.done /\ EqualIgnoringCase) =>
    \A out \in MergeOutputs : out = normalizeTranscriptText(mergeIn.previous)

\* "A<tab>b " was merged with " a  b" and the result is "A b".
C18_Witness ==
  /\ mergeOut.done
  /\ mergeIn.previous = X.tabbed
  /\ mergeIn.next = X.spaced
  /\ MergeOutputs = { << "A", " ", "b" >> }

\* Neither normalized text contains the other, case ignored.
NoContainment ==
  LET previousLower == toLowerCase(normalizeTranscriptText(mergeIn.previous))
      nextLower == toLowerCase(normalizeTranscriptText(mergeIn.next))
  IN  /\ previousLower # << >>
      /\ nextLower # << >>
      /\ ~includes(previousLower, nextLower)
      /\ ~includes(nextLower, previousLower)

\* The length of the longest suffix of previous's words that token-equals a
\* prefix of next's words.
LongestOverlap ==
  LET pw == split(normalizeTranscriptText(mergeIn.previous))
      nw == split(normalizeTranscriptText(mergeIn.next))
      ks == { k \in 0..Min(Len(pw), Len(nw)) :
                \A i \in 1..k : normalizeToken(pw[Len(pw) - k + i]) = normalizeToken(nw[i]) }
  IN  CHOOSE k \in ks : \A j \in ks : j <= k

\* C19: when neither text contains the other and the longest suffix of
\* previous's words that token-equals a prefix of next's words has length
\* k > 0, the merge returns previous's words followed by next's words after
\* the first k, adjacent duplicate tokens collapsed, whether or not next
\* looks like a restart; "the quick brown" merged with "brown fox jumps" is
\* "the quick brown fox jumps".
C19_OverlapStitching ==
  mergeOut.done =>
    LET pw == split(normalizeTranscriptText(mergeIn.previous))
        nw == split(normalizeTranscriptText(mergeIn.next))
        k == LongestOverlap
    IN  /\ (NoContainment /\ k > 0)
             => \A out \in MergeOutputs :
                  out = join(collapseDuplicateWords(pw \o SubSeq(nw, k + 1, Len(nw))))
        /\ (mergeIn.previous = X.theQuickBrown /\ mergeIn.next = X.brownFoxJumps)
             => MergeOutputs = { join(<< X.theQuickBrown, SubSeq(X.brownFoxJumps, 7, 15) >>) }

\* The words overlap and next looks like a restart of previous, and the
\* result is the stitched text, not next.
C19_Witness ==
  /\ mergeOut.done
  /\ NoContainment
  /\ LongestOverlap > 0
  /\ looksLikeRestart(normalizeTranscriptText(mergeIn.previous),
                      normalizeTranscriptText(mergeIn.next))
  /\ mergeOut.engine # normalizeTranscriptText(mergeIn.next)
  /\ mergeOut.lib = mergeOut.engine

\* next's first two tokens are previous's first two, or its first token is
\* previous's first and it has at least 4 tokens.
RestartByPrefix ==
  LET pt == tokenize(normalizeTranscriptText(mergeIn.previous))
      nt == tokenize(normalizeTranscriptText(mergeIn.next))
  IN  /\ Len(pt) >= 1
      /\ Len(nt) >= 1
      /\ pt[1] = nt[1]
      /\ \/ Len(pt) >= 2 /\ Len(nt) >= 2 /\ pt[2] = nt[2]
         \/ Len(nt) >= 4

\* C20: when no containment and no word overlap applies and next restarts
\* previous (same first two tokens, or same first token and at least 4
\* tokens), the merge returns next and discards previous, for both values
\* of isFinal.
C20_RestartReturnsNext ==
  (mergeOut.done /\ NoContainment /\ LongestOverlap = 0 /\ RestartByPrefix) =>
    \A out \in MergeOutputs : out = normalizeTranscriptText(mergeIn.next)

\* No rule before the final replacement decides the input: both texts are
\* non-empty, neither contains the other (so they are not equal), no suffix
\* of previous's words matches a prefix of next's, and next does not restart
\* previous.
NoEarlierRule == NoContainment /\ LongestOverlap = 0 /\ ~RestartByPrefix

\* isFinal, next has at least FINAL_REPLACE_MIN_WORDS words and at least as
\* many words as previous.
FinalGuard ==
  LET pw == split(normalizeTranscriptText(mergeIn.previous))
      nw == split(normalizeTranscriptText(mergeIn.next))
  IN  mergeIn.isFinal /\ Len(nw) >= FINAL_REPLACE_MIN_WORDS /\ Len(nw) >= Len(pw)

\* previous followed by next, adjacent duplicate tokens collapsed.
Concatenation ==
  join(collapseDuplicateWords(split(normalizeTranscriptText(mergeIn.previous))
                                \o split(normalizeTranscriptText(mergeIn.next))))

\* C27: when no earlier rule decides the input, the merge returns next
\* (whitespace collapsed and trimmed) if and only if isFinal is true and next
\* has at least 5 words and at least as many words as previous; otherwise it
\* returns previous followed by next with adjacent duplicate tokens
\* collapsed.  When an earlier rule decides the input, the result is the same
\* for both values of isFinal.
C27_FinalReplacementGuarded ==
  mergeOut.done =>
    IF NoEarlierRule
    THEN \A out \in MergeOutputs :
           out = IF FinalGuard THEN normalizeTranscriptText(mergeIn.next) ELSE Concatenation
    ELSE /\ mergeOut.engine =
              mergeIncrementalTranscriptText(mergeIn.previous, mergeIn.next, ~mergeIn.isFinal)
         /\ mergeOut.lib =
              mergeIncrementalTranscriptTextLib(mergeIn.previous, mergeIn.next,
                                                ~mergeIn.isFinal)

\* C27 for the function of src/unnamed/part_001 alone.
C27_EngineOnly ==
  mergeOut.done =>
    IF NoEarlierRule
    THEN mergeOut.engine =
           IF FinalGuard THEN normalizeTranscriptText(mergeIn.next) ELSE Concatenation
    ELSE mergeOut.engine =
           mergeIncrementalTranscriptText(mergeIn.previous, mergeIn.next, ~mergeIn.isFinal)

\* The parsed event of one delivery, and of one that yields a transcript.
EventParsed == parseIn.kind = "event" /\ parseOut # << >>
TranscriptParsed == EventParsed /\ parseOut[1].transcript.text # NULL

\* The value of a form field of the delivery, NULL when it is absent.
Field(name) == IF K(name) \in DOMAIN parseIn.body THEN parseIn.body[K(name)] ELSE NULL

\* C28: a transcript whose Track hint holds both a caller keyword and an
\* other keyword ("inbound-agent", "Customer Agent"), or neither ("mono"), is
\* attributed to the unknown speaker.
C28_AmbiguousHintUnknown ==
  (TranscriptParsed /\ Field("Track") \in { V("inboundAgent"), V("customerAgent"), V("mono") })
    => parseOut[1].transcript.speaker = Speaker.unknown

\* C28 for the hints that hold neither kind of keyword.
C28_NeitherUnknown ==
  (TranscriptParsed /\ Field("Track") = V("mono"))
    => parseOut[1].transcript.speaker = Speaker.unknown

\* C23: the finality of a transcript is the IsFinal field when it parses as
\* a boolean; else the boolean isFinal/final of the TranscriptionData JSON,
\* at top level or in the first segment, given as a JSON boolean or as a
\* string that parses as one; else whether the event name matches
\* final|complete|stopped.
C23_FinalityPriority ==
  TranscriptParsed =>
    parseOut[1].transcript.isFinal =
      IF Field("IsFinal") \in { V("true"), V("false") } THEN Field("IsFinal") = V("true")
      ELSE IF Field("TranscriptionData") \in { V("docFinalTrue"), V("docFinalString") } THEN TRUE
      ELSE IF Field("TranscriptionData") \in { V("docFinalFalse"), V("docSegment") } THEN FALSE
      ELSE Field("TranscriptionEvent") = V("stopped")

\* C23 with an embedded JSON boolean (true, false) passed over, as a value
\* that is no string, and only an embedded string honoured.
C23_EmbeddedStringsOnly ==
  TranscriptParsed =>
    parseOut[1].transcript.isFinal =
      IF Field("IsFinal") \in { V("true"), V("false") } THEN Field("IsFinal") = V("true")
      ELSE IF Field("TranscriptionData") = V("docFinalString") THEN TRUE
      ELSE IF Field("TranscriptionData") = V("docSegment") THEN FALSE
      ELSE Field("TranscriptionEvent") = V("stopped")

\* The TranscriptionData values that are not JSON, or not a JSON object.
MalformedData == { V("docBroken"), V("docArray"), V("docString"), V("docNull"), V("docNumber") }

\* C29: for a TranscriptionData value that is not JSON, or not a JSON object,
\* the event is the one the delivery without that field parses to: callSid
\* and status are returned, and the transcript is that of the form fields
\* (none when the form has no text).
C29_MalformedJsonAbsent ==
  (EventParsed /\ Field("TranscriptionData") \in MalformedData) =>
    /\ parseOut[1].callSid = V("CA1")
    /\ parseOut[1].status = V("inProgress")
    /\ parseOut[1].transcript.text = Field("TranscriptionText")
    /\ parseOut[1] =
         parseTwilioWebhookEvent(
           [k \in DOMAIN parseIn.body \ { K("TranscriptionData") } |-> parseIn.body[k]],
           NULL, now)

C29_Witness ==
  /\ EventParsed
  /\ Field("TranscriptionData") = V("docBroken")
  /\ Field("Track") = V("outbound")
  /\ Field("IsFinal") = NULL
  /\ Field("TranscriptionEvent") = V("stopped")
  /\ parseOut[1].transcript.text = V("Hi")
  /\ parseOut[1].transcript.speaker = Speaker.other
  /\ parseOut[1].transcript.isFinal

\* The panel has displayed the scenario's transcript, the third delivery
\* being of the caller.
ScenarioDisplayed ==
  /\ parseIn.kind = "scenario"
  /\ mergeOut.done
  /\ parseIn.deliveries[3].body[K("Track")] = V("inbound")

\* The two entries of the scenario: the final's text of the other party,
\* then the caller's segment.
TwoEntries ==
  /\ Len(mergeOut.lib) = 2
  /\ mergeOut.lib[1].text = parseIn.deliveries[2].body[K("TranscriptionText")]
  /\ mergeOut.lib[1].speaker = Speaker.other
  /\ mergeOut.lib[2].text = parseIn.deliveries[3].body[K("TranscriptionText")]
  /\ mergeOut.lib[2].speaker = Speaker.caller
  /\ mergeOut.lib[1].timestamp <= mergeOut.lib[2].timestamp

\* C21: after a partial, a final of the same segment that extends it and a
\* segment of a different speaker, delivered with non-decreasing timestamps,
\* the transcript of the call has exactly 2 entries: the final's text of the
\* first speaker, then the third delivery's text of the second, with
\* non-decreasing timestamps.
C21_TwoMergedEntries == ScenarioDisplayed => TwoEntries

\* C21 for a final that arrives no more than UTTERANCE_GAP_MS after the
\* partial.
C21_WithinUtteranceGap ==
  (ScenarioDisplayed /\ parseIn.deliveries[2].gap <= UTTERANCE_GAP_MS) => TwoEntries

\* C22: the step that issues setLiveCallStatus for a status webhook, when the
\* store does not reject, leaves lastError null when the canonical status is
\* not failed (ended, or any non-terminal status) and sets it to
\* "Call status changed to <provider status>." when it is failed.
C22_LastErrorOnlyWhenFailed ==
  [][ \A r \in Slots :
        (h[r].pc = "upsert" /\ h'[r].pc = "setStatus" /\ ~h'[r].err) =>
          LET c == Event(h[r]).callSid
              status == normalizeSessionStatus(Event(h[r]).status)
          IN  /\ sessions'[c].status = status
              /\ sessions'[c].lastError =
                    IF status = "failed"
                      THEN "Call status changed to " \o Str(Event(h[r]).status) \o "."
                    ELSE "none" ]_vars

\* A failed call carries the message, while a call in progress carries none.
C22_Witness ==
  /\ sessions[V("CA2")].status = "failed"
  /\ sessions[V("CA2")].lastError = "Call status changed to failed."
  /\ sessions[V("CA1")].exists
  /\ sessions[V("CA1")].status = "live"
  /\ sessions[V("CA1")].lastError = "none"

\* The handler in slot r is about to call runAdviceForCall for its event while
\* no run of the call is in progress and less than ADVICE_MIN_INTERVAL_MS has
\* passed since the call's lastRunAt.
TriggerWithinInterval(r) ==
  /\ h[r].pc = "append"
  /\ ~h[r].err
  /\ ~adviceState[Event(h[r]).callSid].running
  /\ now - adviceState[Event(h[r]).callSid].lastRunAt < ADVICE_MIN_INTERVAL_MS

\* force of the trigger of the handler in slot r: isFinal || callEnded.
ForcedTrigger(r) ==
  \/ Event(h[r]).transcript.isFinal
  \/ /\ Event(h[r]).status # NULL
     /\ isTerminalStatus(normalizeSessionStatus(Event(h[r]).status))

\* C24: a non-forced trigger arriving while no run is in progress and less
\* than ADVICE_MIN_INTERVAL_MS after lastRunAt changes neither running, pending
\* nor lastRunAt of any call, makes no storage call (the handler answers
\* without awaiting one, session rows and chunks unchanged) and no generation;
\* a forced trigger in the same situation starts a run.
C24_DebounceLeavesUnchanged ==
  [][ \A r \in Slots :
        (TriggerWithinInterval(r) /\ h'[r] # h[r]) =>
          IF ForcedTrigger(r)
          THEN /\ adviceState'[Event(h[r]).callSid].running
               /\ h'[r].pc = "summary"
          ELSE /\ adviceState' = adviceState
               /\ sessions' = sessions
               /\ chunks' = chunks
               /\ h'[r].pc = "done"
               /\ h'[r].resp = 200
               /\ \A c \in CallSids : g'[c].runGens = g[c].runGens ]_vars

\* A trigger that is not forced is about to arrive within the interval of a
\* run that has finished.
C24_Witness ==
  \E r \in Slots :
    /\ TriggerWithinInterval(r)
    /\ ~ForcedTrigger(r)
    /\ adviceState[Event(h[r]).callSid].lastRunAt > 0

\* The handler in slot r has stored its status event with
\* upsertLiveCallSession and is about to call setLiveCallStatus for a provider
\* status whose webhook has been processed for the call before.
RepeatedStatus(r) ==
  /\ h[r].pc = "upsert"
  /\ ~h[r].err
  /\ Event(h[r]).status # NULL
  /\ \E first \in g[Event(h[r]).callSid].settled : first.provider = Event(h[r]).status

C26_TriggerAfterAppend ==
  [][ /\ \A c \in CallSids :
           (\/ adviceState'[c].running /\ ~adviceState[c].running
            \/ adviceState'[c].pending /\ ~adviceState[c].pending) =>
             \E r \in Slots :
               /\ h[r].pc = "append"
               /\ ~h[r].err
               /\ h'[r] # h[r]
               /\ Event(h[r]).callSid = c
               /\ Event(h[r]).transcript.sourceEventId \in Range(chunks[c])
      /\ \A r \in Slots :
           /\ (h[r].pc = "append" /\ h[r].err /\ h'[r] # h[r]) =>
                /\ adviceState' = adviceState
                /\ h'[r].pc = "done"
                /\ h'[r].resp = 500
           /\ (h[r].pc = "analyzing" /\ h'[r].pc = "generate") =>
                /\ Event(h[r]).transcript.sourceEventId \in Range(h[r].transcript)
                /\ \A id \in g[Event(h[r]).callSid].unanalyzed :
                     \/ id \in Range(h[r].transcript)
                     \/ adviceState[Event(h[r]).callSid].pending ]_vars

\* generateLiveAdvice is running on a window of two chunks, the second of
\* which was appended by the handler that started the run.
C26_Witness ==
  \E r \in Slots :
    /\ h[r].pc = "generate"
    /\ Len(h[r].transcript) = 2
    /\ h[r].transcript[2] = Event(h[r]).transcript.sourceEventId
    /\ g[Event(h[r]).callSid].coalesced = 0

\* C30: a step of a handler that serves call A (the call of the request it
\* is serving, or receives in that step) leaves running, pending and
\* lastRunAt of every other call as they were; and a trigger for a call that
\* has no run in progress and is forced, or not within
\* ADVICE_MIN_INTERVAL_MS of the call's lastRunAt, starts the call's run in
\* that step, whatever runs the other calls have in progress, while a trigger
\* for a call whose own run is in progress sets the call's pending.
C30_CallsIndependent ==
  [][ \A r \in Slots :
        h'[r] # h[r] =>
          /\ \A b \in CallSids :
               b # Event(IF h[r].pc \in { "idle", "done" } THEN h'[r] ELSE h[r]).callSid
                 => adviceState'[b] = adviceState[b]
          /\ ( /\ h[r].pc = "append"
               /\ ~h[r].err
               /\ ~adviceState[Event(h[r]).callSid].running
               /\ \/ ForcedTrigger(r)
                  \/ now - adviceState[Event(h[r]).callSid].lastRunAt >= ADVICE_MIN_INTERVAL_MS )
               => /\ adviceState'[Event(h[r]).callSid].running
                  /\ h'[r].pc = "summary"
          /\ (h[r].pc = "append" /\ ~h[r].err /\ adviceState[Event(h[r]).callSid].running)
               => /\ adviceState'[Event(h[r]).callSid].pending
                  /\ h'[r].pc = "done" ]_vars

\* The runs of the two calls are in progress at once, one of them in
\* generateLiveAdvice.
C30_Witness ==
  /\ \A c \in CallSids : adviceState[c].running
  /\ \E r \in Slots : h[r].pc = "generate"

\* C32: in every reachable state, a call whose running is false has pending
\* false.
C32_NoPendingWithoutRun ==
  \A c \in CallSids : ~adviceState[c].running => ~adviceState[c].pending

\* C35: a handler whose delivery found its (callSid, sourceEventId) row
\* already stored causes no additional generateLiveAdvice invocation: it
\* invokes generateLiveAdvice on no window whose chunks have all been given
\* to an invocation before.
C35_DuplicateStartsNoGeneration ==
  [][ \A r \in Slots :
        (h[r].duplicate /\ h[r].pc = "analyzing" /\ h'[r].pc = "generate")
          => ~(Range(h[r].transcript) \subseteq g[Event(h[r]).callSid].analyzed) ]_vars

\* C36: once the run that set a call's analyzing flag has cleared running,
\* the flag is false again: no call has analyzing set while no run of it is
\* in progress (only a run sets the flag).
C36_AnalyzingClearedWithRun ==
  \A c \in CallSids : ~adviceState[c].running => ~sessions[c].analyzing

\* A delivery and its retry were both parsed and both carry a transcript.
BothParsed ==
  /\ parseIn.kind = "parse"
  /\ Len(parseOut) = 2
  /\ parseOut[1].text # NULL
  /\ parseOut[2].text # NULL

\* The form field of a delivery, NULL when absent.
FormField(body, key) == IF key \in DOMAIN body THEN body[key] ELSE NULL

\* The two deliveries carry the same explicit segment id.
SameSegment ==
  /\ FormField(parseIn.first, K("TranscriptionSegmentSid")) # NULL
  /\ FormField(parseIn.first, K("TranscriptionSegmentSid"))
       = FormField(parseIn.retry, K("TranscriptionSegmentSid"))

\* The two deliveries carry the same (transcription session, sequence) pair:
\* the same TranscriptionSid and the same SequenceId, one of them at least
\* being present.
SameSessionSequence ==
  /\ \/ FormField(parseIn.first, K("TranscriptionSid")) # NULL
     \/ FormField(parseIn.first, K("SequenceId")) # NULL
  /\ FormField(parseIn.first, K("TranscriptionSid"))
       = FormField(parseIn.retry, K("TranscriptionSid"))
  /\ FormField(parseIn.first, K("SequenceId")) = FormField(parseIn.retry, K("SequenceId"))

\* C34: two transcript events of one call with the same text and different
\* timestamps get different sourceEventIds, unless they carry the same
\* explicit segment id or the same (transcription session, sequence) pair.
C34_RepeatedUtteranceDistinctIds ==
  (/\ BothParsed
   /\ parseOut[1].text = parseOut[2].text
   /\ parseOut[1].timestamp # parseOut[2].timestamp
   /\ ~SameSegment
   /\ ~SameSessionSequence)
    => parseOut[1].sourceEventId # parseOut[2].sourceEventId

\* C33: merging the same fragment again, with the same isFinal, into the
\* reconciled text leaves the reconciled text as it is, in the server's
\* engine and in the library the panel uses.
C33_ReapplyIsNoOp ==
  (mergeOut.done /\ mergeOut.again # << >>) =>
    /\ mergeOut.again[1] = mergeOut.engine
    /\ mergeOut.again[2] = mergeOut.lib

\* The engine alone.
C33_ReapplyEngine ==
  (mergeOut.done /\ mergeOut.again # << >>) => mergeOut.again[1] = mergeOut.engine

\* The library alone.
C33_ReapplyLib ==
  (mergeOut.done /\ mergeOut.again # << >>) => mergeOut.again[2] = mergeOut.lib

\* C31: whenever running is set for a call, it is eventually false again,
\* whether the calls the run awaits return or throw: running ~> ~running,
\* which is to say that running is false infinitely often.
C31_RunReleasesScheduler ==
  \A c \in CallSids : []<>(~adviceState[c].running)

\* A run set the analyzing flag, the generation and the fallback store threw,
\* and running is false again.
C31_Witness ==
  \E c \in CallSids :
    /\ sessions[c].analyzing
    /\ ~adviceState[c].running
    /\ failLeft < MaxFailures

\* C40: once a phone number is stored for the tenant, no PUT request without
\* a valid override token changes it, under any interleaving of the requests.
C40_PhoneSetOnce ==
  [][ (tenants # NULL /\ tenants' # tenants) =>
        \E r \in PutSlots :
          puts[r].pc = "select" /\ puts'[r].pc = "update" /\ puts[r].override ]_vars

\* compactTranscriptForDisplay has returned.
Compacted == display # << >> /\ display.pc = "done"

\* The line of the input that has the id.
LineOf(id) == display.lines[CHOOSE i \in DOMAIN display.lines : display.lines[i].id = id]

\* The loop, taken one iteration at a time, returns what
\* compactTranscriptForDisplay returns.
CompactLoopIsCompact ==
  Compacted => display.compacted = compactTranscriptForDisplay(display.lines)

ByPoll(e) == effects[e].poll.pc = "read" /\ effects'[e].poll.pc = "none"

\* A realtime callback of the channel of effect e runs in this step.
ByRow(e) ==
  /\ effects'[e].channel = effects[e].channel
  /\ Len(changes') = Len(changes) - 1
  /\ Cardinality({ i \in DOMAIN changes : changes[i].e = e })
       > Cardinality({ i \in DOMAIN changes' : changes'[i].e = e })

\* C37: once a terminal status of the active call has set panelState to
\* ended, no poll response and no realtime row of that call sets it to live.
C37_EndedIsStable ==
  [][ \A e \in DOMAIN effects :
        (/\ panel.panelState = "ended"
         /\ effects[e].callId = panel.callId
         /\ ~effects[e].cancelled
         /\ ByPoll(e) \/ ByRow(e))
          => panel'.panelState # "live" ]_vars

\* C38: once the effect of a call is cleaned up and a new session has its
\* own callId, no poll response and no realtime callback of the old call
\* changes the state of the panel.
C38_OldCallLeavesNewSession ==
  [][ \A e \in DOMAIN effects :
        (/\ effects[e].cancelled
         /\ panel.callId # NULL
         /\ panel.callId # effects[e].callId
         /\ ByPoll(e) \/ ByRow(e))
          => panel' = panel ]_vars

\* The same for the poll responses alone, which check cancelled.
C38_OldPollLeavesNewSession ==
  [][ \A e \in DOMAIN effects :
        (/\ effects[e].cancelled
         /\ panel.callId # NULL
         /\ panel.callId # effects[e].callId
         /\ ByPoll(e))
          => panel' = panel ]_vars

\* C10: a request that passed authentication (and whose account matches) is
\* answered with ok: true, whatever the event and whatever happens while it
\* is processed.
C10_AuthenticatedAnsweredOk ==
  \A r \in Slots :
    (h[r].pc = "done" /\ h[r].parsed /\ h[r].error # "account-mismatch")
      => h[r].resp = 200

====
